---------------------------- MODULE Spec2Model ----------------------------
(***************************************************************************)
(* A model of the acquisition/analysis pipeline of J-QUANTS-API-report:    *)
(*   - src/analysis/calculator.py   calculate_metrics_flexible and the     *)
(*                                  growth functions it uses               *)
(*   - src/api/edinet_client.py     search_documents / fetch_reports /     *)
(*                                  download_document                      *)
(*   - src/analysis/individual.py   fetch_edinet_reports (the year loop)   *)
(*   - src/analysis/xbrl_parser.py  extract_sections_by_type               *)
(*                                                                         *)
(* Python values are tagged records: None, NaN, a number (an exact         *)
(* rational n/d standing for the float), a string (a sequence of           *)
(* one-character strings, so that len(), slicing, int() and float() are    *)
(* computed as the code computes them) and Obj, a value of a wrong type    *)
(* (a dict).  Float rounding is not modelled.                              *)
(***************************************************************************)
EXTENDS Integers, Sequences, FiniteSets, TLC

(***************************************************************************)
(* State of a caller of calculate_metrics_flexible                         *)
(***************************************************************************)
VARIABLES
    annual_data,      \* the list of annual facts handed to the calculator
    prices,           \* the price dict handed to it (a set of [k, v] entries)
    analysis_years,   \* the analysis_years argument: None or a number
    now,              \* datetime.now(): [year, month, day]
    seen_fy_ends,     \* the function's seen_fy_ends set, as the last call left it
    metrics,          \* what the last call returned
    prev_metrics,     \* what the call before it returned
    annual_data0      \* the list as the caller built it (never assigned again)

calcVars == <<annual_data, prices, analysis_years, now, seen_fy_ends, metrics,
              prev_metrics, annual_data0>>

(***************************************************************************)
(* Python values                                                           *)
(***************************************************************************)
None == [t |-> "none"]
NaN  == [t |-> "nan"]
Obj  == [t |-> "obj"]

Abs(i) == IF i < 0 THEN -i ELSE i

RECURSIVE Gcd(_, _)
Gcd(a, b) == IF b = 0 THEN a ELSE Gcd(b, a % b)

\* the rational n/d in lowest terms with a positive denominator (d # 0)
Num(n, d) ==
    LET g == Gcd(Abs(n), Abs(d))
        s == IF d < 0 THEN -1 ELSE 1
    IN  [t |-> "num", n |-> (s * n) \div g, d |-> (s * d) \div g]

Int2Num(i) == Num(i, 1)
Str(s)     == [t |-> "str", s |-> s]

IsNone(v) == v.t = "none"
IsNum(v)  == v.t = "num"
IsNaN(v)  == v.t = "nan"
IsStr(v)  == v.t = "str"

\* float arithmetic on numbers and NaN (NaN propagates)
FAdd(a, b) == IF IsNaN(a) \/ IsNaN(b) THEN NaN
              ELSE Num(a.n * b.d + b.n * a.d, a.d * b.d)
FMul(a, b) == IF IsNaN(a) \/ IsNaN(b) THEN NaN
              ELSE Num(a.n * b.n, a.d * b.d)
\* a / b for b # 0
FDiv(a, b) == IF IsNaN(a) \/ IsNaN(b) THEN NaN
              ELSE Num(a.n * b.d, a.d * b.n)
\* comparisons with NaN are False
FLeZero(a) == IsNum(a) /\ a.n <= 0
FGtZero(a) == IsNum(a) /\ a.n > 0
FNeZero(a) == IsNaN(a) \/ a.n # 0

(***************************************************************************)
(* Python strings: sequences of one-character strings                      *)
(***************************************************************************)
Digits == {"0", "1", "2", "3", "4", "5", "6", "7", "8", "9"}

DigitVal(c) ==
    CASE c = "0" -> 0 [] c = "1" -> 1 [] c = "2" -> 2 [] c = "3" -> 3
      [] c = "4" -> 4 [] c = "5" -> 5 [] c = "6" -> 6 [] c = "7" -> 7
      [] c = "8" -> 8 [] c = "9" -> 9

\* s[i:j] with 0-based, end-exclusive, clamped indices (0 <= i)
Slice(s, i, j) ==
    LET hi == IF j > Len(s) THEN Len(s) ELSE j
    IN  IF i >= hi THEN << >> ELSE SubSeq(s, i + 1, hi)

AllDigits(s) == Len(s) > 0 /\ \A k \in 1..Len(s) : s[k] \in Digits

RECURSIVE DigitsVal(_)
DigitsVal(s) ==
    IF Len(s) = 0 THEN 0
    ELSE 10 * DigitsVal(SubSeq(s, 1, Len(s) - 1)) + DigitVal(s[Len(s)])

\* int(s): an optional sign and decimal digits; anything else is a ValueError
IsIntLiteral(s) ==
    IF Len(s) > 0 /\ s[1] \in {"-", "+"} THEN AllDigits(Tail(s)) ELSE AllDigits(s)
IntOf(s) ==
    IF s[1] = "-" THEN -DigitsVal(Tail(s))
    ELSE IF s[1] = "+" THEN DigitsVal(Tail(s))
    ELSE DigitsVal(s)

\* s.replace(old, "") for a one-character old
RECURSIVE RemoveChar(_, _)
RemoveChar(s, c) ==
    IF Len(s) = 0 THEN << >>
    ELSE IF s[1] = c THEN RemoveChar(Tail(s), c)
    ELSE <<s[1]>> \o RemoveChar(Tail(s), c)

\* float(s): "nan", or an optional sign and decimal digits; else a ValueError
IsFloatLiteral(s) == s = <<"n", "a", "n">> \/ IsIntLiteral(s)
FloatOf(s) == IF s = <<"n", "a", "n">> THEN NaN ELSE Int2Num(IntOf(s))


(***************************************************************************)
(* calculator.py: growth functions                                         *)
(***************************************************************************)
\* a year-over-year growth that gates the previous value only
yoy_growth_gating_previous_only(current_value, previous_value) ==
    IF IsNone(current_value) \/ IsNone(previous_value) THEN None
    ELSE IF FLeZero(previous_value) THEN None
    ELSE FMul(FAdd(FDiv(current_value, previous_value), Int2Num(-1)), Int2Num(100))

\* calculate_yoy_growth: ((current / previous) - 1.0) * 100, or None
calculate_yoy_growth(current_value, previous_value) ==
    IF IsNone(current_value) \/ IsNone(previous_value) THEN None
    ELSE IF FLeZero(previous_value) THEN None
    ELSE IF FLeZero(current_value) THEN None
    ELSE FMul(FAdd(FDiv(current_value, previous_value), Int2Num(-1)), Int2Num(100))

\* The float (math.pow(base, 1.0 / years) - 1.0) * 100.  The root is not a
\* rational in general, so the value is kept as the pair it is computed from.
PowGrowth(base, years) ==
    IF IsNaN(base) THEN NaN ELSE [t |-> "cagr", base |-> base, years |-> years]

\* calculate_cagr
calculate_cagr(latest_value, oldest_value, years) ==
    IF IsNone(latest_value) \/ IsNone(oldest_value) THEN None
    ELSE IF FLeZero(oldest_value) THEN None
    ELSE IF FLeZero(latest_value) THEN None
    ELSE IF years <= 0 THEN None
    ELSE PowGrowth(FDiv(latest_value, oldest_value), years)

NotNone(v) == ~IsNone(v)

\* a growth rate whose method is selected by the number of values, None included
growth_rate_by_span(values) ==
    IF Len(values) < 2 THEN None
    ELSE LET valid_values == SelectSeq(values, NotNone)
         IN  IF Len(valid_values) < 2 THEN None
             ELSE LET latest == valid_values[1]
                      oldest == valid_values[Len(valid_values)]
                  IN  IF Len(values) = 2
                      THEN calculate_yoy_growth(latest, oldest)
                      ELSE calculate_cagr(latest, oldest, Len(values) - 1)

\* calculate_growth_rate: the method is selected by the number of non-None values
calculate_growth_rate(values) ==
    IF Len(values) < 2 THEN None
    ELSE LET valid_values == SelectSeq(values, NotNone)
         IN  IF Len(valid_values) < 2 THEN None
             ELSE LET latest == valid_values[1]
                      oldest == valid_values[Len(valid_values)]
                  IN  IF Len(valid_values) = 2
                      THEN calculate_yoy_growth(latest, oldest)
                      ELSE calculate_cagr(latest, oldest, Len(valid_values) - 1)

(***************************************************************************)
(* calculator.py: calculate_metrics_flexible                               *)
(***************************************************************************)
\* config.get_max_analysis_years(): every plan maps to 10
MaxAnalysisYears == 10

\* Python truth value ("if not fy_end")
Truthy(v) ==
    CASE v.t = "none" -> FALSE
      [] v.t = "str"  -> Len(v.s) > 0
      [] v.t = "text" -> Len(v.w) > 0
      [] v.t = "list" -> Len(v.v) > 0
      [] v.t = "num"  -> v.n # 0
      [] OTHER        -> TRUE

\* The future-year check of one period-end (lines 164-182):
\*   "raise"  len() of a value that is no string: an uncaught TypeError
\*   "future" a parsed year/month after the current one: the record is dropped
\*   "ok"     anything else, parse errors and unknown formats included
FutureCheck(fy_end, today) ==
    IF fy_end.t \in {"num", "nan"} THEN "raise"
    ELSE IF fy_end.t = "obj" THEN "ok"
    ELSE LET s  == fy_end.s
             ys == Slice(s, 0, 4)
             ms == IF Len(s) = 8 THEN Slice(s, 4, 6) ELSE Slice(s, 5, 7)
         IN  IF Len(s) \notin {8, 10} THEN "ok"
             ELSE IF ~IsIntLiteral(ys) \/ ~IsIntLiteral(ms) THEN "ok"
             ELSE IF IntOf(ys) > today.year
                     \/ (IntOf(ys) = today.year /\ IntOf(ms) > today.month)
                  THEN "future"
                  ELSE "ok"

\* is_valid_value (lines 192-217): None, "", NaN, 0 and non-numbers are invalid
is_valid_value(value) ==
    CASE value.t = "none" -> FALSE
      [] value.t = "nan"  -> FALSE
      [] value.t = "num"  -> value.n # 0
      [] value.t = "str"  -> /\ IsFloatLiteral(value.s)
                             /\ IsNum(FloatOf(value.s))
                             /\ FloatOf(value.s).n # 0
      [] OTHER            -> FALSE

has_valid_data(year_data) ==
    \/ is_valid_value(year_data.Sales)
    \/ is_valid_value(year_data.OP)
    \/ is_valid_value(year_data.NP)
    \/ is_valid_value(year_data.Eq)

\* a seen_fy_ends that outlives the call
StaleSeenFyEnds == seen_fy_ends

\* the set() of line 157
FreshSeenFyEnds == {}

\* The pre-filter loop (lines 156-238) from record i on.  seen is
\* seen_fy_ends, years_data the records kept so far.
RECURSIVE FilterYears(_, _, _, _, _, _)
FilterYears(data, i, years_data, seen, ay, today) ==
    IF i > Len(data)
    THEN [raised |-> FALSE, years_data |-> years_data, seen |-> seen]
    ELSE LET year_data == data[i]
             fy_end    == year_data.CurFYEn
             skip      == FilterYears(data, i + 1, years_data, seen,
                                      ay, today)
         IN  IF ~Truthy(fy_end) THEN skip
             ELSE IF FutureCheck(fy_end, today) = "raise"
                  THEN [raised |-> TRUE, years_data |-> years_data, seen |-> seen]
             ELSE IF FutureCheck(fy_end, today) = "future" THEN skip
             ELSE IF ~has_valid_data(year_data) THEN skip
             ELSE IF fy_end.t = "obj"   \* an unhashable key: TypeError
                  THEN [raised |-> TRUE, years_data |-> years_data, seen |-> seen]
             ELSE IF fy_end \in seen THEN skip
             ELSE IF Len(years_data) + 1 >= ay
                  THEN [raised |-> FALSE, years_data |-> Append(years_data, year_data),
                        seen |-> seen \cup {fy_end}]
                  ELSE FilterYears(data, i + 1, Append(years_data, year_data),
                                   seen \cup {fy_end}, ay, today)

\* to_float (lines 262-273)
to_float(value) ==
    CASE value.t = "none" -> None
      [] value.t = "num"  -> value
      [] value.t = "nan"  -> NaN
      [] value.t = "str"  -> IF IsFloatLiteral(value.s) THEN FloatOf(value.s) ELSE None
      [] OTHER            -> None

\* float(price) inside the try blocks of lines 317-332: None stands for the
\* ValueError/TypeError the block catches
PriceFloat(price) ==
    CASE price.t = "num" -> price
      [] price.t = "nan" -> NaN
      [] price.t = "str" -> IF IsFloatLiteral(price.s) THEN FloatOf(price.s) ELSE None
      [] OTHER           -> None

\* px is a dict, modelled as a set of [k, v] entries with distinct keys
HasKey(px, key) == \E e \in px : e.k = key
Lookup(px, key) == (CHOOSE e \in px : e.k = key).v

\* lines 303-312: exact period-end key, then the key with the dashes removed
PriceFor(px, fy_end) ==
    IF px = {} \/ ~Truthy(fy_end) THEN None
    ELSE IF HasKey(px, fy_end.s) THEN Lookup(px, fy_end.s)
    ELSE IF HasKey(px, RemoveChar(fy_end.s, "-"))
         THEN Lookup(px, RemoveChar(fy_end.s, "-"))
    ELSE None

\* lines 292-301
RoeOf(np, eq) ==
    IF IsNone(np) \/ IsNone(eq) THEN None
    ELSE IF FNeZero(eq) THEN FMul(FDiv(np, eq), Int2Num(100))
    ELSE None

\* lines 314-332 (PER from EPS, PBR from BPS)
PriceRatio(price, per_share) ==
    IF IsNone(price) \/ IsNone(per_share) THEN None
    ELSE IF FGtZero(per_share)
         THEN IF IsNone(PriceFloat(price)) THEN None
              ELSE FDiv(PriceFloat(price), per_share)
    ELSE None

\* one iteration of the loop of lines 258-351
YearMetric(year_data, px) ==
    LET fy_end == year_data.CurFYEn
        np     == to_float(year_data.NP)
        eq     == to_float(year_data.Eq)
        cfo    == to_float(year_data.CFO)
        cfi    == to_float(year_data.CFI)
        eps    == to_float(year_data.EPS)
        bps    == to_float(year_data.BPS)
        payout_ratio_raw == to_float(year_data.PayoutRatioAnn)
        price  == PriceFor(px, fy_end)
    IN  [fy_end |-> fy_end,
         sales  |-> to_float(year_data.Sales),
         op     |-> to_float(year_data.OP),
         np     |-> np,
         eq     |-> eq,
         cfo    |-> cfo,
         cfi    |-> cfi,
         fcf    |-> IF ~IsNone(cfo) /\ ~IsNone(cfi) THEN FAdd(cfo, cfi) ELSE None,
         roe    |-> RoeOf(np, eq),
         eps    |-> eps,
         bps    |-> bps,
         price  |-> price,
         per    |-> PriceRatio(price, eps),
         pbr    |-> PriceRatio(price, bps),
         payout_ratio |-> IF IsNone(payout_ratio_raw) THEN None
                          ELSE FMul(payout_ratio_raw, Int2Num(100))]


Absent      == [t |-> "absent"]      \* a key the result dict does not hold
NotCalled   == [kind |-> "none"]     \* no call was made yet
EmptyResult == [kind |-> "empty"]    \* the dict {}
Raised(exc) == [kind |-> "raise", exc |-> exc]

Min(a, b) == IF a < b THEN a ELSE b

\* lines 141-144
ResolvedYears(data, ay) ==
    IF IsNone(ay) THEN Min(Len(data), MaxAnalysisYears)
    ELSE ay.n

FieldValues(years_metrics, field) ==
    [i \in 1..Len(years_metrics) |-> years_metrics[i][field]]

\* growth of FCF, ROE, EPS and sales (lines 359-389): over all years' values
GrowthAll(years_metrics, field) ==
    calculate_growth_rate(FieldValues(years_metrics, field))
CagrAll(years_metrics, field) ==
    IF Len(years_metrics) >= 3 THEN GrowthAll(years_metrics, field) ELSE None

\* growth of PER, PBR and payout ratio (lines 392-425): over the non-None values
GrowthValid(years_metrics, field) ==
    LET values == SelectSeq(FieldValues(years_metrics, field), NotNone)
    IN  IF Len(values) >= 2 THEN calculate_growth_rate(values) ELSE None
CagrValid(years_metrics, field) ==
    LET values == SelectSeq(FieldValues(years_metrics, field), NotNone)
    IN  IF Len(values) >= 3 THEN calculate_growth_rate(values) ELSE None

\* lines 249-444: the result dict built from the kept years.  The fields that
\* utils.errors adds (data_availability, data_valid) and the code echo are
\* left out: utils/errors.py is not part of the source tree.
MetricsOf(years_data, years_metrics) ==
    LET many == Len(years_metrics) >= 2
        latest == years_metrics[1]
    IN  [kind            |-> "metrics",
         latest_fy_end   |-> years_data[1].CurFYEn,
         analysis_years  |-> Len(years_data),
         available_years |-> Len(years_data),
         years           |-> years_metrics,
         fcf_growth    |-> IF many THEN GrowthAll(years_metrics, "fcf") ELSE None,
         fcf_cagr      |-> IF many THEN CagrAll(years_metrics, "fcf") ELSE Absent,
         roe_growth    |-> IF many THEN GrowthAll(years_metrics, "roe") ELSE None,
         roe_cagr      |-> IF many THEN CagrAll(years_metrics, "roe") ELSE Absent,
         eps_growth    |-> IF many THEN GrowthAll(years_metrics, "eps") ELSE None,
         eps_cagr      |-> IF many THEN CagrAll(years_metrics, "eps") ELSE Absent,
         sales_growth  |-> IF many THEN GrowthAll(years_metrics, "sales") ELSE None,
         sales_cagr    |-> IF many THEN CagrAll(years_metrics, "sales") ELSE Absent,
         per_growth    |-> IF many THEN GrowthValid(years_metrics, "per") ELSE None,
         per_cagr      |-> IF many THEN CagrValid(years_metrics, "per") ELSE Absent,
         pbr_growth    |-> IF many THEN GrowthValid(years_metrics, "pbr") ELSE None,
         pbr_cagr      |-> IF many THEN CagrValid(years_metrics, "pbr") ELSE Absent,
         payout_growth |-> IF many THEN GrowthValid(years_metrics, "payout_ratio") ELSE None,
         payout_cagr   |-> IF many THEN CagrValid(years_metrics, "payout_ratio") ELSE None,
         latest_fcf    |-> latest.fcf,
         latest_roe    |-> latest.roe,
         latest_eps    |-> latest.eps,
         latest_per    |-> latest.per,
         latest_pbr    |-> latest.pbr,
         latest_sales  |-> latest.sales]

\* lines 258-351: years_metrics holds one entry per kept year
BuildMetrics(years_data, px) ==
    MetricsOf(years_data,
              [i \in 1..Len(years_data) |-> YearMetric(years_data[i], px)])

\* calculate_metrics_flexible: what it returns (or raises) and the
\* seen_fy_ends set it leaves
calculate_metrics_flexible(data, px, ay, today) ==
    IF Len(data) = 0
    THEN [metrics |-> EmptyResult, seen |-> seen_fy_ends]
    ELSE LET f == FilterYears(data, 1, << >>, FreshSeenFyEnds,
                              ResolvedYears(data, ay), today)
         IN  IF f.raised THEN [metrics |-> Raised("TypeError"), seen |-> f.seen]
             ELSE IF Len(f.years_data) < 1
                  THEN [metrics |-> EmptyResult, seen |-> f.seen]
             ELSE [metrics |-> BuildMetrics(f.years_data, px), seen |-> f.seen]


(***************************************************************************)
(* Inputs of the calculator                                                *)
(***************************************************************************)
DigitChr == <<"0", "1", "2", "3", "4", "5", "6", "7", "8", "9">>

\* n >= 0 as w zero-padded decimal digits ("%04d", "%02d")
RECURSIVE FmtInt(_, _)
FmtInt(n, w) ==
    IF w = 0 THEN << >> ELSE FmtInt(n \div 10, w - 1) \o <<DigitChr[(n % 10) + 1]>>

IsoDate(y, m, d)   == FmtInt(y, 4) \o <<"-">> \o FmtInt(m, 2) \o <<"-">> \o FmtInt(d, 2)
PlainDate(y, m, d) == FmtInt(y, 4) \o FmtInt(m, 2) \o FmtInt(d, 2)

\* the longest list of annual facts handed to the calculator
MaxYears == 3
\* the longest list of oddly shaped facts
MaxOddFacts == 2

\* One annual fact.  x feeds the numerators (sales, net profit, operating cash
\* flow, EPS, payout ratio), y the denominators and second terms (operating
\* profit, equity, investing cash flow, BPS).
Fact(fy, x, y) ==
    [CurFYEn |-> fy, Sales |-> x, OP |-> y, NP |-> x, Eq |-> y, CFO |-> x,
     CFI |-> y, EPS |-> x, BPS |-> y, PayoutRatioAnn |-> x]

\* the clock: 20 June 2024
Today == [year |-> 2024, month |-> 6, day |-> 20]

\* the period-end of the i-th newest fiscal year
FyEndOf(i) == Str(IsoDate(2025 - i, 3, 31))

\* numerators and denominators of well-formed facts
NumeratorSamples   == {None, Int2Num(-3), Int2Num(1), Int2Num(2)}
DenominatorSamples == {None, Int2Num(0), Int2Num(-2), Int2Num(2)}
ValuePairs ==
    {<<x, Int2Num(2)>> : x \in NumeratorSamples}
        \cup {<<Int2Num(1), y>> : y \in DenominatorSamples}

\* lists of n well-formed facts, newest first, with distinct period-ends
WellFormedLists(n) ==
    {[i \in 1..n |-> Fact(FyEndOf(i), vs[i][1], vs[i][2])] : vs \in [1..n -> ValuePairs]}

\* price dicts for n years: every period-end priced p, keyed by the ISO date
\* or by the date without dashes
PriceDict(n, p, dashed) ==
    {[k |-> IF dashed THEN FyEndOf(i).s ELSE RemoveChar(FyEndOf(i).s, "-"), v |-> p]
        : i \in 1..n}
PriceSamples == {Int2Num(6), Int2Num(0), Int2Num(-6)}
PriceDicts(n) ==
    {{}} \cup {PriceDict(n, p, TRUE) : p \in PriceSamples}
         \cup {PriceDict(n, Int2Num(6), FALSE)}

\* period-ends of oddly shaped facts
OddFyEnds ==
    {FyEndOf(1),                        \* "2024-03-31"
     Str(PlainDate(2024, 3, 31)),       \* "20240331"
     Str(IsoDate(2025, 3, 31)),         \* a future year
     Str(IsoDate(2024, 9, 30)),         \* a future month of this year
     Str(<<"2", "0", "2", "4", "-", "0", "3">>),                  \* unknown format
     Str(<<"2", "0", "X", "4", "-", "0", "3", "-", "3", "1">>),   \* no number
     None,
     Int2Num(20240331)}                 \* a number, not a string
\* main values that is_valid_value rejects, in pairs (x, y)
InvalidPairs ==
    {<<None, Str(<< >>)>>, <<Int2Num(0), NaN>>, <<Obj, Str(<<"a", "b">>)>>}
OddFacts ==
    {Fact(fy, Int2Num(5), None) : fy \in OddFyEnds}
        \cup {Fact(FyEndOf(1), v[1], v[2]) : v \in InvalidPairs}
        \cup {Fact(FyEndOf(1), Str(<<"7">>), Obj)}
OddLists(n) == [1..n -> OddFacts]
AnalysisYearsSamples == {None, Int2Num(1), Int2Num(2)}

\* the state after the caller has built its arguments
InitCalcRatios ==
    \E n \in 1..MaxYears :
        /\ annual_data \in WellFormedLists(n)
        /\ prices \in PriceDicts(n)
        /\ analysis_years = None
InitCalcOdd ==
    \E n \in 0..MaxOddFacts :
        /\ annual_data \in OddLists(n)
        /\ prices = {}
        /\ analysis_years \in AnalysisYearsSamples
\* facts for the truncation: two of the newest period-end, one of the year
\* before, one of a future year and one without a valid main value
TruncationFacts ==
    {Fact(FyEndOf(1), Int2Num(1), Int2Num(2)),
     Fact(FyEndOf(1), Int2Num(2), Int2Num(2)),
     Fact(FyEndOf(2), Int2Num(1), Int2Num(2)),
     Fact(Str(IsoDate(2025, 3, 31)), Int2Num(1), Int2Num(2)),
     Fact(FyEndOf(3), None, Str(<< >>))}
\* the years asked for, 0 among them
TruncationYears == {Int2Num(n) : n \in 0..MaxYears}
InitCalcTruncate ==
    \E n \in 1..MaxYears :
        /\ annual_data \in [1..n -> TruncationFacts]
        /\ prices = {}
        /\ analysis_years \in TruncationYears
InitCalc ==
    /\ InitCalcRatios \/ InitCalcOdd \/ InitCalcTruncate
    /\ now = Today
    /\ seen_fy_ends = {}
    /\ metrics = NotCalled
    /\ prev_metrics = NotCalled
    /\ annual_data0 = annual_data

\* the calculator is not in use
IdleCalc ==
    /\ annual_data = << >>
    /\ prices = {}
    /\ analysis_years = None
    /\ now = Today
    /\ seen_fy_ends = {}
    /\ metrics = NotCalled
    /\ prev_metrics = NotCalled
    /\ annual_data0 = << >>

\* metrics = calculate_metrics_flexible(annual_data, prices, analysis_years)
\* (individual.py line 506); the function assigns to none of its arguments
CalculateMetrics ==
    /\ \E r \in {calculate_metrics_flexible(annual_data, prices, analysis_years, now)} :
           /\ metrics' = r.metrics
           /\ seen_fy_ends' = r.seen
    /\ prev_metrics' = metrics
    /\ UNCHANGED <<annual_data, prices, analysis_years, now, annual_data0>>

(***************************************************************************)
(* Dates (datetime, timedelta, strftime, strptime)                         *)
(***************************************************************************)
IsLeap(y) == (y % 4 = 0 /\ y % 100 # 0) \/ y % 400 = 0

DaysInMonth(y, m) ==
    IF m = 2 THEN (IF IsLeap(y) THEN 29 ELSE 28)
    ELSE IF m \in {4, 6, 9, 11} THEN 30 ELSE 31

RECURSIVE DaysBeforeMonth(_, _)
DaysBeforeMonth(y, m) ==
    IF m <= 1 THEN 0 ELSE DaysBeforeMonth(y, m - 1) + DaysInMonth(y, m - 1)

\* days from 1 January 2020 to 1 January of y (y >= 2020)
RECURSIVE DaysBeforeYear(_)
DaysBeforeYear(y) ==
    IF y <= 2020 THEN 0
    ELSE DaysBeforeYear(y - 1) + (IF IsLeap(y - 1) THEN 366 ELSE 365)

Date(y, m, d) == [year |-> y, month |-> m, day |-> d]

\* the day number of a date, and the date of a day number
toordinal(date) ==
    DaysBeforeYear(date.year) + DaysBeforeMonth(date.year, date.month) + date.day
fromordinal(n) ==
    LET y == CHOOSE yy \in 2020..2031 :
                 DaysBeforeYear(yy) < n /\ n <= DaysBeforeYear(yy + 1)
        r == n - DaysBeforeYear(y)
        m == CHOOSE mm \in 1..12 :
                 DaysBeforeMonth(y, mm) < r
                     /\ r <= DaysBeforeMonth(y, mm) + DaysInMonth(y, mm)
    IN  Date(y, m, r - DaysBeforeMonth(y, m))

\* date.strftime("%Y-%m-%d")
strftime(date) == IsoDate(date.year, date.month, date.day)

\* datetime.strptime(s, "%Y-%m-%d") succeeds on YYYY-MM-DD of a real day
IsIsoDate(s) ==
    /\ Len(s) = 10
    /\ s[5] = "-" /\ s[8] = "-"
    /\ AllDigits(Slice(s, 0, 4)) /\ AllDigits(Slice(s, 5, 7)) /\ AllDigits(Slice(s, 8, 10))
    /\ DigitsVal(Slice(s, 5, 7)) \in 1..12
    /\ DigitsVal(Slice(s, 8, 10))
          \in 1..DaysInMonth(DigitsVal(Slice(s, 0, 4)), DigitsVal(Slice(s, 5, 7)))
ParseIsoDate(s) ==
    Date(DigitsVal(Slice(s, 0, 4)), DigitsVal(Slice(s, 5, 7)), DigitsVal(Slice(s, 8, 10)))

\* datetime.strptime(s, "%Y%m%d") succeeds on YYYYMMDD of a real day
IsPlainDate(s) ==
    /\ Len(s) = 8
    /\ AllDigits(s)
    /\ DigitsVal(Slice(s, 4, 6)) \in 1..12
    /\ DigitsVal(Slice(s, 6, 8))
          \in 1..DaysInMonth(DigitsVal(Slice(s, 0, 4)), DigitsVal(Slice(s, 4, 6)))
ParsePlainDate(s) ==
    Date(DigitsVal(Slice(s, 0, 4)), DigitsVal(Slice(s, 4, 6)), DigitsVal(Slice(s, 6, 8)))

\* the parse of a period-end or disclosure date string: the first 10
\* characters as YYYY-MM-DD if there are 10, else the first 8 as YYYYMMDD;
\* None stands for a string too short and for the ValueError of strptime
ParseDateString(s) ==
    IF Len(s) >= 10
    THEN (IF IsIsoDate(Slice(s, 0, 10)) THEN ParseIsoDate(Slice(s, 0, 10)) ELSE None)
    ELSE IF Len(s) >= 8
    THEN (IF IsPlainDate(Slice(s, 0, 8)) THEN ParsePlainDate(Slice(s, 0, 8)) ELSE None)
    ELSE None

\* the fiscal year of a period-end: a year that ends in March is the year before
FiscalYearOf(date) == IF date.month = 3 THEN date.year - 1 ELSE date.year

(***************************************************************************)
(* More of Python's str                                                    *)
(***************************************************************************)
\* str(n) for an integer n >= 0
RECURSIVE StrOfNat(_)
StrOfNat(n) ==
    IF n < 10 THEN <<DigitChr[n + 1]>>
    ELSE StrOfNat(n \div 10) \o <<DigitChr[(n % 10) + 1]>>

\* s.strip() for the space character
RECURSIVE LStrip(_)
LStrip(s) == IF Len(s) > 0 /\ s[1] = " " THEN LStrip(Tail(s)) ELSE s
RECURSIVE RStrip(_)
RStrip(s) ==
    IF Len(s) > 0 /\ s[Len(s)] = " " THEN RStrip(SubSeq(s, 1, Len(s) - 1)) ELSE s
strip(s) == RStrip(LStrip(s))

\* s.zfill(width) for an unsigned s
RECURSIVE zfill(_, _)
zfill(s, width) == IF Len(s) >= width THEN s ELSE zfill(<<"0">> \o s, width)

\* s.startswith(prefix)
startswith(s, prefix) == Len(prefix) <= Len(s) /\ SubSeq(s, 1, Len(prefix)) = prefix


(***************************************************************************)
(* edinet_client.py: _request                                              *)
(***************************************************************************)
MAX_RETRIES     == 3
RETRY_DELAY     == 2
RATE_LIMIT_WAIT == 60

RECURSIVE Pow2(_)
Pow2(n) == IF n = 0 THEN 1 ELSE 2 * Pow2(n - 1)

\* What the remote answers to the successive attempts of one request: a
\* non-empty sequence of outcomes, the last of which repeats.  An outcome is
\* an HTTP status ("200", "204", "404", "429", "500") or "timeout" (a
\* Timeout or ConnectionError).
OutcomeAt(behaviour, retry_count) == behaviour[Min(retry_count + 1, Len(behaviour))]

\* _request(endpoint, params, retry_count): the status of the response it
\* returns, or "raise" for the RequestException it raises; attempts is the
\* number of GETs issued, slept the seconds spent in time.sleep
RECURSIVE request(_, _)
request(behaviour, retry_count) ==
    LET outcome == OutcomeAt(behaviour, retry_count)
        raised  == [status |-> "raise", attempts |-> retry_count + 1, slept |-> 0]
        retry(wait_time) ==
            LET r == request(behaviour, retry_count + 1)
            IN  [r EXCEPT !.slept = @ + wait_time]
    IN  IF outcome \in {"200", "204", "404"}
        THEN [status |-> outcome, attempts |-> retry_count + 1, slept |-> 0]
        ELSE IF outcome = "429"
        THEN IF retry_count < MAX_RETRIES
             THEN retry(RETRY_DELAY * Pow2(retry_count) + RATE_LIMIT_WAIT)
             ELSE raised
        ELSE IF outcome = "timeout"
        THEN IF retry_count < MAX_RETRIES
             THEN retry(RETRY_DELAY * Pow2(retry_count))
             ELSE raised
        ELSE raised

(***************************************************************************)
(* edinet_client.py: _request, step by step                                *)
(***************************************************************************)
\* One call of _request(endpoint, params) with its recursive calls.  Each
\* GET is bounded by timeout=60 and each time.sleep by its argument, so
\* that every step that is enabled is taken in the end.
VARIABLES
    req_behaviour,    \* what the remote answers to the successive GETs
    req_pc,           \* "get", "sleep", "returned", "raised" ("idle": no call)
    retry_count,      \* the retry_count argument of the current call
    req_attempts,     \* the outcomes of the GETs issued so far, in order
    req_sleeps        \* the arguments of time.sleep so far, in order

requestVars == <<req_behaviour, req_pc, retry_count, req_attempts, req_sleeps>>

\* retry_count < self.MAX_RETRIES with one retry more
may_retry_once_more(count) == count <= MAX_RETRIES

\* lines 103, 118: retry_count < self.MAX_RETRIES
MayRetry(count) == count < MAX_RETRIES

\* lines 104, 119: wait_time after a 429 and after a network failure
WaitTime(outcome, count) ==
    IF outcome = "429"
    THEN RETRY_DELAY * Pow2(count) + RATE_LIMIT_WAIT
    ELSE RETRY_DELAY * Pow2(count)

\* lines 91-125: the GET of the current call and what its outcome leads to:
\* the response is returned, the call sleeps before a retry, or a
\* RequestException is raised
RequestGet ==
    /\ req_pc = "get"
    /\ \E outcome \in {OutcomeAt(req_behaviour, retry_count)} :
          /\ req_attempts' = Append(req_attempts, outcome)
          /\ IF outcome \in {"200", "204", "404"}
             THEN req_pc' = "returned" /\ UNCHANGED req_sleeps
             ELSE IF outcome \in {"429", "timeout"} /\ MayRetry(retry_count)
             THEN /\ req_pc' = "sleep"
                  /\ req_sleeps' = Append(req_sleeps, WaitTime(outcome, retry_count))
             ELSE req_pc' = "raised" /\ UNCHANGED req_sleeps
    /\ UNCHANGED <<req_behaviour, retry_count>>

\* lines 106-107, 121-122: time.sleep(wait_time) is over and _request calls
\* itself with retry_count + 1
RequestRetry ==
    /\ req_pc = "sleep"
    /\ req_pc' = "get"
    /\ retry_count' = retry_count + 1
    /\ UNCHANGED <<req_behaviour, req_attempts, req_sleeps>>

\* the most answers the remote is given in advance; its last one repeats
MaxAnswers == 4
AnswerSamples == {"200", "404", "429", "500", "timeout"}
Behaviours == UNION {[1..n -> AnswerSamples] : n \in 1..MaxAnswers}

InitRequest ==
    /\ req_behaviour \in Behaviours
    /\ req_pc = "get"
    /\ retry_count = 0
    /\ req_attempts = << >>
    /\ req_sleeps = << >>

\* _request is not called
IdleRequest ==
    /\ req_behaviour = <<"200">>
    /\ req_pc = "idle"
    /\ retry_count = 0
    /\ req_attempts = << >>
    /\ req_sleeps = << >>

(***************************************************************************)
(* edinet_client.py: search_documents, the dates searched for a year       *)
(***************************************************************************)
\* A J-QUANTS record is [CurFYEn, DiscDate, CurPerType, fiscal_year]: None or
\* a string each, fiscal_year None or a number.  List(v) is a Python list.
List(v) == [t |-> "list", v |-> v]

\* the record's entry of fy_end_to_disc_date / fy_end_to_period_end (lines
\* 163-240), or None if the record is passed over
JquantsEntry(record, today) ==
    LET fy_end      == record.CurFYEn
        disc_date   == record.DiscDate
        period_type == IF Truthy(record.CurPerType) THEN record.CurPerType ELSE Str(<<"F", "Y">>)
        is2Q        == period_type = Str(<<"2", "Q">>)
    IN  IF ~(Truthy(fy_end) /\ Truthy(disc_date)) THEN None
        ELSE LET period_date == ParseDateString(fy_end.s)
                 fiscal_year == IF IsNone(record.fiscal_year)
                                THEN FiscalYearOf(period_date)
                                ELSE record.fiscal_year.n
                 disc_date_formatted ==
                     IF Len(disc_date.s) = 8
                     THEN Slice(disc_date.s, 0, 4) \o <<"-">> \o Slice(disc_date.s, 4, 6)
                              \o <<"-">> \o Slice(disc_date.s, 6, 8)
                     ELSE Slice(disc_date.s, 0, 10)
             IN  IF period_date = None THEN None
                 ELSE IF Len(disc_date.s) # 8 /\ Len(disc_date.s) < 10 THEN None
                 ELSE IF IsIsoDate(disc_date_formatted)
                         /\ toordinal(ParseIsoDate(disc_date_formatted)) > toordinal(today)
                      THEN None
                 ELSE [key |-> [year |-> fiscal_year, is2Q |-> is2Q],
                       disc_date |-> disc_date_formatted,
                       period_end |-> period_date]

\* the two dicts after records i.. were read: a later record replaces an
\* earlier one with the same key
RECURSIVE JquantsMapping(_, _, _, _)
JquantsMapping(jquants_data, i, mapping, today) ==
    IF i > Len(jquants_data) THEN mapping
    ELSE LET e == JquantsEntry(jquants_data[i], today)
         IN  JquantsMapping(jquants_data, i + 1,
                 IF e = None THEN mapping
                 ELSE {m \in mapping : m.key # e.key} \cup {e},
                 today)

\* day numbers lo..hi as date strings
DateRange(lo, hi) == [k \in 1..(IF hi >= lo THEN hi - lo + 1 ELSE 0) |->
                         strftime(fromordinal(lo + k - 1))]

\* lines 365-380: the 1st, the 15th and the last day of April, May and June
FallbackDates(year) ==
    <<IsoDate(year + 1, 4, 1), IsoDate(year + 1, 4, 15), IsoDate(year + 1, 4, 30),
      IsoDate(year + 1, 5, 1), IsoDate(year + 1, 5, 15), IsoDate(year + 1, 5, 31),
      IsoDate(year + 1, 6, 1), IsoDate(year + 1, 6, 15), IsoDate(year + 1, 6, 30)>>

\* lines 251-318: the entries of the mapping for the year that have a
\* disclosure date, and the one of them that is used: they are sorted by
\* disclosure date, newest first; of two equal dates the full-year entry,
\* which is looked up first, stays first
AvailableData(year, mapping) ==
    {m \in mapping : m.key.year = year /\ IsIsoDate(m.disc_date)}
LatestData(available_data) ==
    CHOOSE m \in available_data :
        \A o \in available_data :
            \/ toordinal(ParseIsoDate(o.disc_date)) < toordinal(ParseIsoDate(m.disc_date))
            \/ /\ o.disc_date = m.disc_date
               /\ (o = m \/ ~m.key.is2Q)

\* the days from 7 before to 60 after the disclosure date, whatever the
\* period end
search_window_around_disclosure(disc_date, period_end, now_ordinal) ==
    DateRange(disc_date - 7, Min(disc_date + 60, now_ordinal))

\* lines 336-358: the days searched around a disclosure date, all as day
\* numbers
SearchWindow(disc_date, period_end, now_ordinal) ==
    LET start1 == IF disc_date - 7 < period_end THEN period_end ELSE disc_date - 7
        end1   == Min(Min(disc_date + 60, period_end + 90), now_ordinal)
    IN  IF start1 > end1
        THEN DateRange(disc_date - 7, Min(disc_date + 30, now_ordinal))
        ELSE DateRange(start1, end1)
WindowOf(latest_data, today) ==
    SearchWindow(toordinal(ParseIsoDate(latest_data.disc_date)),
                 toordinal(latest_data.period_end), toordinal(today))

\* lines 365-382: without a window the fallback dates are searched
WindowOrFallback(window, year) ==
    IF Len(window) > 0 THEN window ELSE FallbackDates(year)
SearchDatesFrom(available_data, year, today) ==
    WindowOrFallback(IF available_data = {} THEN << >>
                     ELSE WindowOf(LatestData(available_data), today),
                     year)

\* lines 244-382: search_dates of one year
SearchDates(year, mapping, today) ==
    SearchDatesFrom(AvailableData(year, mapping), year, today)

(***************************************************************************)
(* edinet_client.py: search_documents, one year of the index               *)
(***************************************************************************)
\* A document of the index is a record
\*   [docID, secCode, ordinanceCode, docTypeCode, docDescription, filerName,
\*    periodEnd, submitDateTime, matched_year]
\* of None or strings; secCode may be a number.  docDescription and
\* filerName are texts: the sequence of the phrases the code looks for
\* ("yuho" for 有価証券報告書, "hanki" for 半期報告書, "teisei" for 訂正, "hosei"
\* for 補正, "toyota" for トヨタ自動車) and of other words.  matched_year is
\* the key _matched_year, Absent unless search_documents sets it.
Text(w) == [t |-> "text", w |-> w]

\* phrase in text
InText(phrase, text) == \E i \in 1..Len(text.w) : text.w[i] = phrase

\* sub in s, for sequences of characters
InStr(sub, s) ==
    \E i \in 0..(Len(s) - Len(sub)) : Slice(s, i, i + Len(sub)) = sub

\* str(v) of a string or a non-negative integer
StrOf(v) == IF IsStr(v) THEN v.s ELSE StrOfNat(v.n)

\* The body of a response of /documents.json:
\*   [kind |-> "results", docs]    {"metadata": .., "results": docs}
\*   [kind |-> "metadata", count, has_list, docs]
\*                                 only metadata with a count and, if
\*                                 has_list, docs under some other key
\*   [kind |-> "statusCode"]       an error payload {"statusCode": ..}
\*   [kind |-> "badjson"]          not JSON
\*   [kind |-> "other"]            JSON with none of these keys
Results(docs) == [kind |-> "results", docs |-> docs]

\* what the index answers for a date nobody filed on
DefaultEntry(date) == [date |-> date, attempts |-> <<"200">>, body |-> Results(<< >>)]

\* index is the remote index: a set of [date, attempts, body], one per date
IndexEntry(index, date) ==
    IF \E e \in index : e.date = date
    THEN CHOOSE e \in index : e.date = date
    ELSE DefaultEntry(date)

\* the documents of a date if the body were read whatever the request gave
date_documents_of_failed_requests(entry) ==
    IF entry.body.kind = "results" THEN entry.body.docs ELSE << >>

\* lines 389-494: the documents one search date adds to year_documents
DateDocuments(entry) ==
    IF request(entry.attempts, 0).status # "200" THEN << >>
    ELSE IF entry.body.kind = "results" THEN entry.body.docs
    ELSE IF entry.body.kind = "metadata"
         THEN IF entry.body.count > 0 /\ entry.body.has_list
              THEN entry.body.docs ELSE << >>
    ELSE << >>

\* the documents of the search dates up to the first one that fails
RECURSIVE year_documents_until_failure(_, _, _)
year_documents_until_failure(index, search_dates, i) ==
    IF i > Len(search_dates) THEN << >>
    ELSE IF request(IndexEntry(index, search_dates[i]).attempts, 0).status # "200"
    THEN << >>
    ELSE DateDocuments(IndexEntry(index, search_dates[i]))
             \o year_documents_until_failure(index, search_dates, i + 1)

\* lines 389-441: year_documents after the loop over the search dates from
\* date i on
RECURSIVE YearDocuments(_, _, _)
YearDocuments(index, search_dates, i) ==
    IF i > Len(search_dates) THEN << >>
    ELSE DateDocuments(IndexEntry(index, search_dates[i]))
             \o YearDocuments(index, search_dates, i + 1)

\* line 519: "'トヨタ自動車' in filer_name" is evaluated for a document with a
\* security code that does not hold 7203; it raises on a null filerName
PreScanRaises(year_documents) ==
    \E i \in 1..Len(year_documents) :
        LET doc == year_documents[i]
        IN  /\ Truthy(doc.secCode)
            /\ ~InStr(<<"7", "2", "0", "3">>, StrOf(doc.secCode))
            /\ IsNone(doc.filerName)

\* lines 608-621
is_target_report(doc) ==
    /\ doc.ordinanceCode \in {Str(<<"0", "1", "0">>), Str(<<"0", "2", "0">>)}
    /\ \/ /\ Truthy(doc.docTypeCode)
          /\ Len(doc.docTypeCode.s) >= 3
          /\ Slice(doc.docTypeCode.s, 0, 3) \in {<<"0", "3", "0">>, <<"0", "5", "0">>}
       \/ /\ Truthy(doc.docDescription)
          /\ (InText("yuho", doc.docDescription) \/ InText("hanki", doc.docDescription))

\* no description marks an amendment
correction_filter_off(doc) == FALSE

\* lines 628-630
is_correction(doc) ==
    /\ Truthy(doc.docDescription)
    /\ (InText("teisei", doc.docDescription) \/ InText("hosei", doc.docDescription))

\* lines 590-645: unique_documents, from document i on
RECURSIVE UniqueDocuments(_, _, _)
UniqueDocuments(year_documents, i, seen_doc_ids) ==
    IF i > Len(year_documents) THEN << >>
    ELSE LET doc  == year_documents[i]
             skip == UniqueDocuments(year_documents, i + 1, seen_doc_ids)
         IN  IF ~is_target_report(doc) THEN skip
             ELSE IF is_correction(doc) THEN skip
             ELSE IF IsNone(doc.secCode) THEN skip
             ELSE IF Truthy(doc.docID) /\ doc.docID \notin seen_doc_ids
                  THEN <<doc>> \o UniqueDocuments(year_documents, i + 1,
                                                  seen_doc_ids \cup {doc.docID})
             ELSE skip

\* lines 757-773: the comparison of a security code with the input code
is_match(sec_code_str, code) ==
    LET code_4digit == IF Len(code) >= 4 THEN Slice(code, 0, 4) ELSE code
        code_5digit == IF Len(code) < 5 THEN zfill(code, 5) ELSE code
        sec_code_normalized == zfill(sec_code_str, 5)
        code_normalized     == zfill(code, 5)
    IN  \/ sec_code_str = code_4digit
        \/ sec_code_str = code_5digit
        \/ sec_code_str = code
        \/ sec_code_normalized = code_normalized
        \/ startswith(sec_code_str, code_4digit)
        \/ Slice(sec_code_normalized, 0, 4) = Slice(code_normalized, 0, 4)
        \/ (Len(sec_code_str) = 5 /\ Slice(sec_code_str, 0, 4) = code_4digit)

\* line 723: doc_type is not assigned in the matching loop; it still holds
\* the docTypeCode of the last document of year_documents.  "raise" stands
\* for the TypeError of a null description or a null doc_type.
is_half_year_report(doc, doc_type) ==
    IF IsNone(doc.docDescription) THEN "raise"
    ELSE IF InText("hanki", doc.docDescription) THEN "yes"
    ELSE IF IsNone(doc_type) THEN "raise"
    ELSE IF Slice(doc_type.s, 0, 3) = <<"0", "5", "0">> THEN "yes"
    ELSE "no"

\* lines 725-744: the fiscal year read from periodEnd, None if there is none
DocYear(doc, year, half_year) ==
    LET period_end == doc.periodEnd
        head       == Slice(period_end.s, 0, 10)
        period_date == ParseIsoDate(head)
        doc_year   == FiscalYearOf(period_date)
    IN  IF ~Truthy(period_end) THEN None
        ELSE IF ~IsStr(period_end) \/ ~IsIsoDate(head) THEN None
        ELSE IF half_year /\ period_date.month = 3
                /\ (doc_year = year \/ doc_year = year + 1)
             THEN Int2Num(year)
        ELSE Int2Num(doc_year)

\* lines 706-785: filtered, from document i on; raised when an exception
\* leaves the loop
RECURSIVE MatchDocuments(_, _, _, _, _)
MatchDocuments(unique_documents, i, code, year, doc_type) ==
    IF i > Len(unique_documents) THEN [raised |-> FALSE, filtered |-> << >>]
    ELSE LET doc  == unique_documents[i]
             rest == MatchDocuments(unique_documents, i + 1, code, year, doc_type)
             sec_code_str == strip(StrOf(doc.secCode))
             half == is_half_year_report(doc, doc_type)
             doc_year == DocYear(doc, year, half = "yes")
             matched ==
                 IF ~Truthy(doc.periodEnd)
                 THEN [doc EXCEPT !.matched_year = Int2Num(year)]
                 ELSE doc
         IN  IF IsNone(doc.secCode) THEN rest
             ELSE IF half = "raise" THEN [raised |-> TRUE, filtered |-> << >>]
             ELSE IF ~IsNone(doc_year) /\ doc_year # Int2Num(year) THEN rest
             ELSE IF is_match(sec_code_str, code)
                  THEN [rest EXCEPT !.filtered = <<matched>> \o @]
             ELSE rest

\* lines 672: "'トヨタ' in doc.get('filerName', '')" is evaluated for a kept
\* document whose security code is not '7203'; it raises on a null filerName
UniqueScanRaises(unique_documents) ==
    \E i \in 1..Len(unique_documents) :
        LET doc == unique_documents[i]
        IN  /\ Truthy(doc.secCode)
            /\ StrOf(doc.secCode) # <<"7", "2", "0", "3">>
            /\ IsNone(doc.filerName)

\* a document the loop of lines 651-660 takes as a sample
IsNoSecSample(doc) ==
    /\ doc.ordinanceCode \in {Str(<<"0", "1", "0">>), Str(<<"0", "2", "0">>)}
    /\ Truthy(doc.docTypeCode)
    /\ Len(doc.docTypeCode.s) >= 3
    /\ Slice(doc.docTypeCode.s, 0, 3) = <<"0", "3", "0">>
    /\ IsNone(doc.secCode)

\* The value doc_type holds when the matching loop starts: the docTypeCode
\* of the last document the loop of lines 590-645 read, or, if that loop met
\* a report without a security code, of the document the loop of lines
\* 651-660 stopped at (its third sample, else the last document).
StaleDocType(year_documents) ==
    LET n == Len(year_documents)
        no_sec_code_count ==
            Cardinality({i \in 1..n :
                /\ is_target_report(year_documents[i])
                /\ ~is_correction(year_documents[i])
                /\ IsNone(year_documents[i].secCode)})
        samples_upto(i) == Cardinality({j \in 1..i : IsNoSecSample(year_documents[j])})
        stop == IF \E i \in 1..n : samples_upto(i) >= 3
                THEN CHOOSE i \in 1..n :
                         samples_upto(i) >= 3 /\ \A j \in 1..(i - 1) : samples_upto(j) < 3
                ELSE n
    IN  IF no_sec_code_count > 0 THEN year_documents[stop].docTypeCode
        ELSE year_documents[n].docTypeCode

\* the index requests of one year, one per search date
YearRequests(year, index, search_dates) ==
    [i \in 1..Len(search_dates) |->
        [endpoint |-> "documents.json", year |-> year,
         date |-> search_dates[i],
         attempts |-> request(IndexEntry(index, search_dates[i]).attempts, 0).attempts]]

\* lines 798-800: an exception inside the iteration is logged and the year
\* adds nothing
YearMatches(year_documents, unique_documents, m) ==
    IF \/ PreScanRaises(year_documents)
       \/ UniqueScanRaises(unique_documents)
       \/ m.raised
    THEN << >> ELSE m.filtered

\* lines 496-785: the documents of the year that are kept and match
MatchesAmong(code, year, year_documents, unique_documents) ==
    YearMatches(year_documents, unique_documents,
                MatchDocuments(unique_documents, 1, code, year,
                               StaleDocType(year_documents)))
MatchesIn(code, year, year_documents) ==
    MatchesAmong(code, year, year_documents, UniqueDocuments(year_documents, 1, {}))

\* lines 385-800: the search of one year on its search dates
SearchOn(code, year, index, search_dates) ==
    [documents |-> MatchesIn(code, year, YearDocuments(index, search_dates, 1)),
     requests  |-> YearRequests(year, index, search_dates)]

\* lines 243-800: one iteration of the loop over years.  documents are the
\* matches the year adds to all_documents, requests the index requests it
\* issues.
SearchYear(code, year, mapping, index, today) ==
    SearchOn(code, year, index, SearchDates(year, mapping, today))

\* all_documents.extend(filtered)
JoinFound(found, rest) ==
    [documents |-> found.documents \o rest.documents,
     requests  |-> found.requests \o rest.requests]

\* search_documents(code, years, jquants_data=jquants_data), from year i on
RECURSIVE SearchYears(_, _, _, _, _, _)
SearchYears(code, years, i, mapping, index, today) ==
    IF i > Len(years) THEN [documents |-> << >>, requests |-> << >>]
    ELSE JoinFound(SearchYear(code, years[i], mapping, index, today),
                   SearchYears(code, years, i + 1, mapping, index, today))

search_documents(has_api_key, code, years, jquants_data, index, today) ==
    IF ~has_api_key THEN [documents |-> << >>, requests |-> << >>]
    ELSE SearchYears(code, years, 1,
                     IF ~Truthy(jquants_data) THEN {}
                     ELSE JquantsMapping(jquants_data.v, 1, {}, today),
                     index, today)

(***************************************************************************)
(* edinet_client.py: download_document and fetch_reports                   *)
(***************************************************************************)
\* The report directory fs is a set of files:
\*   [kind |-> "dir", doc, complete]  {doc}_xbrl, complete once extracted
\*   [kind |-> "zip", doc]            {doc}_xbrl.zip
\*   [kind |-> "pdf", doc]            {doc}.pdf
\* remote_docs is what the document API serves: a set of
\* [doc, type, attempts, content], content "ok" or, for a body that is no ZIP
\* archive, "bad".  A document it does not list is served at once.
XbrlPath(doc_id) == [t |-> "path", kind |-> "dir", doc |-> doc_id]
PdfPath(doc_id)  == [t |-> "path", kind |-> "pdf", doc |-> doc_id]

RemoteDoc(remote, doc_id, doc_type) ==
    IF \E e \in remote : e.doc = doc_id /\ e.type = doc_type
    THEN CHOOSE e \in remote : e.doc = doc_id /\ e.type = doc_type
    ELSE [doc |-> doc_id, type |-> doc_type, attempts |-> <<"200">>, content |-> "ok"]

\* download_document without the look at the directory: every call downloads
download_document_uncached(has_api_key, doc_id, doc_type, files, remote) ==
    LET r == request(RemoteDoc(remote, doc_id, doc_type).attempts, 0)
    IN  [path |-> IF ~has_api_key \/ r.status \in {"raise", "404"} THEN None
                  ELSE IF doc_type = 1 THEN XbrlPath(doc_id) ELSE PdfPath(doc_id),
         fs |-> files,
         requests |-> IF ~has_api_key THEN << >>
                      ELSE <<[endpoint |-> "documents", doc |-> doc_id,
                              type |-> doc_type, attempts |-> r.attempts]>>]

\* download_document(doc_id, doc_type, save_dir): the path it returns (None
\* on failure), the directory it leaves and the requests it issues
download_document(has_api_key, doc_id, doc_type, files, remote) ==
    LET served == RemoteDoc(remote, doc_id, doc_type)
        r      == request(served.attempts, 0)
        issued == <<[endpoint |-> "documents", doc |-> doc_id, type |-> doc_type,
                     attempts |-> r.attempts]>>
        cached == IF doc_type = 1
                  THEN \E f \in files : f.kind = "dir" /\ f.doc = doc_id
                  ELSE \E f \in files : f.kind = "pdf" /\ f.doc = doc_id
    IN  IF ~has_api_key
        THEN [path |-> None, fs |-> files, requests |-> << >>]
        ELSE IF cached
        THEN [path |-> IF doc_type = 1 THEN XbrlPath(doc_id) ELSE PdfPath(doc_id),
              fs |-> files, requests |-> << >>]
        ELSE IF r.status \in {"raise", "404"}
        THEN [path |-> None, fs |-> files, requests |-> issued]
        ELSE IF doc_type = 1
        THEN IF served.content = "ok"
             THEN [path |-> XbrlPath(doc_id),
                   fs |-> {f \in files : ~(f.kind = "zip" /\ f.doc = doc_id)}
                            \cup {[kind |-> "dir", doc |-> doc_id, complete |-> TRUE]},
                   requests |-> issued]
             ELSE [path |-> None,
                   fs |-> files \cup {[kind |-> "zip", doc |-> doc_id],
                                      [kind |-> "dir", doc |-> doc_id, complete |-> FALSE]},
                   requests |-> issued]
        ELSE [path |-> PdfPath(doc_id),
              fs |-> files \cup {[kind |-> "pdf", doc |-> doc_id]},
              requests |-> issued]

\* lines 945-955: 有価証券報告書 ("yuho"), 半期報告書 ("hanki") or 不明 ("unknown")
ReportType(doc) ==
    LET byCode ==
            IF Truthy(doc.docTypeCode) /\ Len(doc.docTypeCode.s) >= 3
            THEN (IF Slice(doc.docTypeCode.s, 0, 3) = <<"0", "3", "0">> THEN "yuho"
                  ELSE IF Slice(doc.docTypeCode.s, 0, 3) = <<"0", "5", "0">> THEN "hanki"
                  ELSE "unknown")
            ELSE "unknown"
    IN  IF byCode # "unknown" THEN byCode
        ELSE IF Truthy(doc.docDescription)
        THEN (IF InText("yuho", doc.docDescription) THEN "yuho"
              ELSE IF InText("hanki", doc.docDescription) THEN "hanki"
              ELSE "unknown")
        ELSE "unknown"

MaxOf(years) == CHOOSE y \in {years[i] : i \in 1..Len(years)} :
                    \A i \in 1..Len(years) : years[i] <= y

\* min(years, key=lambda y: abs(year - y)): the first of the nearest years
ClosestYear(year, years) ==
    years[CHOOSE i \in 1..Len(years) :
              /\ \A j \in 1..Len(years) : Abs(year - years[i]) <= Abs(year - years[j])
              /\ \A j \in 1..(i - 1) : Abs(year - years[j]) > Abs(year - years[i])]

\* lines 957-1007: the year a document is filed under, None if it is skipped
\* (years is not empty)
ReportYear(doc, years) ==
    LET period_end == doc.periodEnd
        head == Slice(period_end.s, 0, 10)
        year == IF Truthy(period_end) /\ IsStr(period_end) /\ IsIsoDate(head)
                THEN FiscalYearOf(ParseIsoDate(head))
                ELSE MaxOf(years)
    IN  IF \E i \in 1..Len(years) : years[i] = year THEN Int2Num(year)
        ELSE IF \A i \in 1..Len(years) : Abs(year - years[i]) > 1 THEN None
        ELSE Int2Num(ClosestYear(year, years))

\* results[year] = {...}
DictSet(dict, key, value) == {e \in dict : e.k # key} \cup {[k |-> key, v |-> value]}

\* lines 938-1029: the loop over the documents found, from document i on;
\* it is reached with an API key only (line 901)
RECURSIVE DownloadReports(_, _, _, _, _, _, _)
DownloadReports(documents, i, years, results, files, remote, requests) ==
    IF i > Len(documents)
    THEN [results |-> results, fs |-> files, requests |-> requests]
    ELSE LET doc  == documents[i]
             year == ReportYear(doc, years)
             x    == download_document(TRUE, doc.docID, 1, files, remote)
             p    == download_document(TRUE, doc.docID, 2, x.fs, remote)
             record ==
                 [docID       |-> doc.docID,
                  submitDate  |-> IF Truthy(doc.submitDateTime)
                                  THEN Str(Slice(doc.submitDateTime.s, 0, 10))
                                  ELSE Str(<< >>),
                  pdf_path    |-> p.path,
                  xbrl_path   |-> x.path,
                  docType     |-> ReportType(doc),
                  docTypeCode |-> doc.docTypeCode,
                  docDescription |-> doc.docDescription,
                  filerName   |-> doc.filerName]
         IN  IF ~Truthy(doc.docID) \/ IsNone(year)
             THEN DownloadReports(documents, i + 1, years, results, files, remote,
                                  requests)
             ELSE DownloadReports(documents, i + 1, years,
                      IF ~IsNone(x.path) \/ ~IsNone(p.path)
                      THEN DictSet(results, year.n, record) ELSE results,
                      p.fs, remote, requests \o x.requests \o p.requests)

\* what fetch_reports returns after its downloads
Downloaded(found, d) ==
    [results |-> d.results, documents |-> found.documents, fs |-> d.fs,
     requests |-> d.requests]

\* lines 931-1031: fetch_reports after its search
ReportsOf(has_api_key, found, years, files, remote) ==
    IF ~has_api_key \/ Len(found.documents) = 0
    THEN [results |-> {}, documents |-> found.documents, fs |-> files,
          requests |-> found.requests]
    ELSE Downloaded(found,
                    DownloadReports(found.documents, 1, years, {}, files, remote,
                                    found.requests))

\* fetch_reports(code, years, jquants_annual_data=jquants_annual_data): the
\* dict it returns, the documents its search found, the directory it leaves
\* and the requests it issues
fetch_reports(has_api_key, code, years, jquants_data, index, files, remote, today) ==
    ReportsOf(has_api_key,
              search_documents(has_api_key, code, years, jquants_data, index, today),
              years, files, remote)

(***************************************************************************)
(* individual.py: fetch_edinet_reports, the loop over the years            *)
(***************************************************************************)
VARIABLES
    api_key,              \* whether the EDINET client holds an API key
    code,                 \* the code argument, a string
    years,                \* the years argument
    jquants_annual_data,  \* the jquants_annual_data argument: None or a list
    remote_index,         \* what /documents.json serves, per date
    remote_docs,          \* what /documents/{docID} serves
    fs,                   \* the files of the reports directory
    pc,                   \* "call", "loop" or "done" ("idle": no call)
    sorted_years,         \* the local sorted_years
    year_idx,             \* the position of the loop in sorted_years
    all_reports,          \* the local all_reports, a dict by year
    search_log,           \* what search_documents returned, call by call
    request_log,          \* the requests issued so far, in order
    fetch_result          \* what fetch_edinet_reports returned

searchVars == <<api_key, code, years, jquants_annual_data, remote_index,
                remote_docs, fs, pc, sorted_years, year_idx, all_reports,
                search_log, request_log, fetch_result>>

\* s without its element at position i
RemoveAt(s, i) == SubSeq(s, 1, i - 1) \o SubSeq(s, i + 1, Len(s))

\* sorted(years, reverse=True)
RECURSIVE SortedDescending(_)
SortedDescending(s) ==
    IF Len(s) = 0 THEN << >>
    ELSE LET i == CHOOSE k \in 1..Len(s) :
                      /\ \A j \in 1..Len(s) : s[j] <= s[k]
                      /\ \A j \in 1..(k - 1) : s[j] < s[k]
         IN  <<s[i]>> \o SortedDescending(RemoveAt(s, i))

\* all_reports.update(reports)
DictUpdate(dict, other) ==
    {e \in dict : ~\E o \in other : o.k = e.k} \cup other

\* lines 825-846: the entry of fetch_edinet_reports
BeginFetch ==
    /\ pc = "call"
    /\ IF ~api_key
       THEN /\ pc' = "done"
            /\ fetch_result' = {}
            /\ UNCHANGED <<sorted_years, year_idx>>
       ELSE /\ pc' = "loop"
            /\ sorted_years' = SortedDescending(years)
            /\ year_idx' = 1
            /\ UNCHANGED fetch_result
    /\ all_reports' = {}
    /\ UNCHANGED <<api_key, code, years, jquants_annual_data, remote_index,
                   remote_docs, fs, search_log, request_log>>

\* lines 848-867: one iteration of "for year in sorted_years", with the
\* call of fetch_reports(code, [year]) it makes; a non-empty answer ends
\* the loop
FetchYear ==
    /\ pc = "loop"
    /\ year_idx <= Len(sorted_years)
    /\ \E reports \in {fetch_reports(api_key, code, <<sorted_years[year_idx]>>,
                                     jquants_annual_data, remote_index, fs,
                                     remote_docs, now)} :
           /\ search_log' = Append(search_log,
                                   [year |-> sorted_years[year_idx],
                                    documents |-> reports.documents])
           /\ request_log' = request_log \o reports.requests
           /\ fs' = reports.fs
           /\ IF reports.results # {}
              THEN /\ all_reports' = DictUpdate(all_reports, reports.results)
                   /\ year_idx' = Len(sorted_years) + 1
              ELSE /\ year_idx' = year_idx + 1
                   /\ UNCHANGED all_reports
    /\ UNCHANGED <<api_key, code, years, jquants_annual_data, remote_index,
                   remote_docs, pc, sorted_years, fetch_result>>

\* lines 869-984: after the loop.  The result holds one record per year of
\* all_reports; its summary text (management_policy) is left out.
FinishFetch ==
    /\ pc = "loop"
    /\ year_idx > Len(sorted_years)
    /\ pc' = "done"
    /\ fetch_result' =
          {[k |-> e.k,
            v |-> [docID |-> e.v.docID, submitDate |-> e.v.submitDate,
                   pdf_path |-> e.v.pdf_path, docType |-> e.v.docType,
                   docTypeCode |-> e.v.docTypeCode,
                   docDescription |-> e.v.docDescription,
                   filerName |-> e.v.filerName]] : e \in all_reports}
    /\ UNCHANGED <<api_key, code, years, jquants_annual_data, remote_index,
                   remote_docs, fs, sorted_years, year_idx, all_reports,
                   search_log, request_log>>

(***************************************************************************)
(* Inputs of the filing search                                             *)
(***************************************************************************)
\* the most documents the index lists on a date
MaxDocs == 2

Doc(id, sec, ord, type, desc, filer, pe) ==
    [docID |-> id, secCode |-> sec, ordinanceCode |-> ord, docTypeCode |-> type,
     docDescription |-> desc, filerName |-> filer, periodEnd |-> pe,
     submitDateTime |-> Str(IsoDate(2024, 6, 15) \o <<" ", "0", "9", ":", "0", "0">>),
     matched_year |-> Absent]

DocId(i) == Str(<<"S">> \o StrOfNat(i))

\* the codes searched for: "7203", "0001" and "72030"
Code7203  == StrOfNat(7203)
Code0001  == zfill(StrOfNat(1), 4)
Code72030 == StrOfNat(72030)
Codes == {Code7203, Code0001, Code72030}

Ordinance010 == Str(zfill(StrOfNat(10), 3))
Ordinance030 == Str(zfill(StrOfNat(30), 3))
DocType030   == Str(zfill(StrOfNat(30), 3))
DocType050   == Str(zfill(StrOfNat(50), 3))
DocType120   == Str(StrOfNat(120))

\* the fiscal years searched, the day a report of a fiscal year is filed on
\* (one of the fallback dates) and the period-end of the fiscal year
NewestYear == Today.year - 1
OlderYear  == NewestYear - 1
FilingDate(year) == IsoDate(year + 1, 6, 15)
PeriodEnd(year)  == Str(IsoDate(year + 1, 3, 31))

\* an annual securities report of Toyota (index code 72030) for a fiscal year
BaseDoc(id, sec, year) ==
    Doc(id, sec, Ordinance010, DocType030, Text(<<"yuho">>), Text(<<"toyota">>),
        PeriodEnd(year))

IndexOn(date, docs) == [date |-> date, attempts |-> <<"200">>, body |-> Results(docs)]

\* the older year's filing
OlderFiling == IndexOn(FilingDate(OlderYear),
                       <<BaseDoc(DocId(9), Str(Code72030), OlderYear)>>)

\* security codes of the index
SecCodeSamples ==
    {None, Str(<< >>), Str(Code7203), Str(Code72030), Str(StrOfNat(7209)),
     Str(StrOfNat(720345)), Int2Num(7203), Str(<<" ">> \o Code7203 \o <<" ">>)}

\* documents that differ from BaseDoc in what the filter and the year check read
FilterDocs ==
    LET sec == Str(Code72030)
        pe  == PeriodEnd(NewestYear)
    IN  {BaseDoc(DocId(1), sec, NewestYear),
         BaseDoc(DocId(2), sec, NewestYear),
         Doc(DocId(1), sec, Ordinance010, DocType050, Text(<<"hanki">>), Text(<<"toyota">>),
             PeriodEnd(NewestYear + 1)),
         Doc(DocId(2), sec, Ordinance010, DocType030, Text(<<"yuho">>), Text(<<"toyota">>),
             PeriodEnd(NewestYear + 1)),
         Doc(DocId(3), sec, Ordinance030, DocType030, Text(<<"yuho">>), Text(<<"toyota">>), pe),
         Doc(DocId(3), sec, Ordinance010, DocType120, Text(<<"yuho">>), Text(<<"toyota">>), pe),
         Doc(DocId(3), sec, Ordinance010, DocType120, Text(<<"other">>), Text(<<"toyota">>), pe),
         Doc(DocId(3), sec, Ordinance010, DocType030, Text(<<"teisei", "yuho">>),
             Text(<<"toyota">>), pe),
         Doc(DocId(3), sec, Ordinance010, DocType030, Text(<<"yuho">>), Text(<<"toyota">>), None),
         Doc(DocId(3), sec, Ordinance010, DocType030, Text(<<"yuho">>), Text(<<"toyota">>),
             PeriodEnd(OlderYear)),
         Doc(DocId(3), sec, Ordinance010, DocType030, Text(<<"yuho">>), Text(<<"toyota">>),
             Str(<<"2", "0", "2", "4", "/", "0", "3", "/", "3", "1">>)),
         Doc(None, sec, Ordinance010, DocType030, Text(<<"yuho">>), Text(<<"toyota">>), pe),
         Doc(DocId(3), sec, Ordinance010, DocType030, Text(<<"yuho">>), None, pe),
         Doc(DocId(3), sec, Ordinance010, None, Text(<<"yuho">>), Text(<<"toyota">>), pe),
         Doc(DocId(3), sec, Ordinance010, DocType030, None, Text(<<"toyota">>), pe),
         Doc(DocId(3), None, Ordinance010, DocType030, Text(<<"yuho">>), Text(<<"toyota">>), pe)}

\* how the remote answers the attempts of an index request
IndexAttempts ==
    {<<"200">>, <<"404">>, <<"500">>, <<"204">>, <<"timeout", "200">>,
     <<"429", "200">>, <<"timeout">>, <<"429">>}
\* what it answers with
IndexBodies ==
    LET docs == <<BaseDoc(DocId(1), Str(Code72030), NewestYear)>>
    IN  {Results(docs), [kind |-> "badjson"], [kind |-> "statusCode"],
         [kind |-> "metadata", count |-> 1, has_list |-> TRUE, docs |-> docs],
         [kind |-> "metadata", count |-> 0, has_list |-> FALSE, docs |-> << >>],
         [kind |-> "other"]}
IndexAnswers ==
    {[date |-> FilingDate(NewestYear), attempts |-> a,
      body |-> Results(<<BaseDoc(DocId(1), Str(Code72030), NewestYear)>>)]
        : a \in IndexAttempts}
    \cup {[date |-> FilingDate(NewestYear), attempts |-> <<"200">>, body |-> b]
            : b \in IndexBodies}

\* how the XBRL bundle of S1 can be had: what the remote serves and what the
\* reports directory already holds
Served(doc_id, doc_type, attempts, content) ==
    [doc |-> doc_id, type |-> doc_type, attempts |-> attempts, content |-> content]
XbrlCases ==
    {[remote |-> {}, fs |-> {}],
     [remote |-> {Served(DocId(1), 1, <<"404">>, "ok")}, fs |-> {}],
     [remote |-> {Served(DocId(1), 1, <<"500">>, "ok")}, fs |-> {}],
     [remote |-> {Served(DocId(1), 1, <<"200">>, "bad")}, fs |-> {}],
     [remote |-> {Served(DocId(1), 1, <<"timeout", "timeout", "200">>, "ok")}, fs |-> {}],
     [remote |-> {}, fs |-> {[kind |-> "dir", doc |-> DocId(1), complete |-> TRUE]}],
     [remote |-> {}, fs |-> {[kind |-> "dir", doc |-> DocId(1), complete |-> FALSE]}]}
PdfCases ==
    {[remote |-> {}, fs |-> {}],
     [remote |-> {Served(DocId(1), 2, <<"404">>, "ok")}, fs |-> {}],
     [remote |-> {Served(DocId(1), 2, <<"500">>, "ok")}, fs |-> {}],
     [remote |-> {}, fs |-> {[kind |-> "pdf", doc |-> DocId(1)]}]}

\* J-QUANTS records of the newest fiscal year
JquantsRecord(fy_end, disc_date, period_type, fiscal_year) ==
    [CurFYEn |-> fy_end, DiscDate |-> disc_date, CurPerType |-> period_type,
     fiscal_year |-> fiscal_year]
FullYear == Str(<<"F", "Y">>)
HalfYear == Str(<<"2", "Q">>)
JquantsSamples ==
    LET fy  == JquantsRecord(PeriodEnd(NewestYear), Str(IsoDate(2024, 5, 10)), FullYear, None)
        h1  == JquantsRecord(Str(IsoDate(2023, 9, 30)), Str(IsoDate(2023, 11, 10)), HalfYear, None)
    IN  {<< >>,
         <<fy>>,
         <<JquantsRecord(Str(PlainDate(2024, 3, 31)), Str(PlainDate(2024, 5, 10)), None, None)>>,
         <<h1>>,
         <<h1, fy>>,
         <<JquantsRecord(PeriodEnd(NewestYear), Str(IsoDate(2024, 7, 1)), FullYear, None)>>,
         <<JquantsRecord(Str(<<"2", "0", "2", "4">>), Str(IsoDate(2024, 5, 10)), FullYear, None)>>,
         <<JquantsRecord(PeriodEnd(NewestYear), Str(IsoDate(2024, 6, 19)), FullYear,
                         Int2Num(NewestYear))>>,
         <<JquantsRecord(PeriodEnd(NewestYear), None, FullYear, None)>>}
\* days the newest year's report may have been filed on
FilingDates ==
    {IsoDate(2024, 5, 2), IsoDate(2024, 5, 3), FilingDate(NewestYear),
     IsoDate(2024, 6, 21), IsoDate(2023, 12, 1)}

\* the state in which fetch_edinet_reports is called
InitSearchCodes ==
    \E n \in 0..MaxDocs : \E secs \in [1..n -> SecCodeSamples] :
        /\ remote_index =
              {IndexOn(FilingDate(NewestYear),
                       [i \in 1..n |-> BaseDoc(DocId(i), secs[i], NewestYear)]),
               OlderFiling}
        /\ code \in Codes
        /\ years = <<NewestYear, OlderYear>>
        /\ jquants_annual_data = None
        /\ remote_docs = {} /\ fs = {} /\ api_key = TRUE
InitSearchFilter ==
    \E n \in 1..MaxDocs :
        /\ \E docs \in [1..n -> FilterDocs] :
              remote_index = {IndexOn(FilingDate(NewestYear), docs), OlderFiling}
        /\ code = Code7203
        /\ years = <<NewestYear, OlderYear>>
        /\ jquants_annual_data = None
        /\ remote_docs = {} /\ fs = {} /\ api_key = TRUE
InitSearchFailures ==
    /\ \E a \in IndexAnswers, x \in XbrlCases, p \in PdfCases :
          /\ a = IndexOn(FilingDate(NewestYear),
                         <<BaseDoc(DocId(1), Str(Code72030), NewestYear)>>)
                \/ (x.remote = {} /\ x.fs = {} /\ p.remote = {} /\ p.fs = {})
          /\ remote_index \in {{a}, {a, OlderFiling}}
          /\ remote_docs = x.remote \cup p.remote
          /\ fs = x.fs \cup p.fs
    /\ code = Code7203
    /\ years \in {<<NewestYear, OlderYear>>, <<OlderYear, NewestYear>>}
    /\ jquants_annual_data = None
    /\ api_key = TRUE
InitSearchWindow ==
    /\ \E d \in FilingDates :
          remote_index = {IndexOn(d, <<BaseDoc(DocId(1), Str(Code72030), NewestYear)>>)}
    /\ jquants_annual_data \in {List(j) : j \in JquantsSamples}
    /\ code = Code7203
    /\ years = <<NewestYear>>
    /\ remote_docs = {} /\ fs = {} /\ api_key = TRUE
\* the index during an outage: every request of a fallback date of the two
\* years is answered as a says
FailingAttempts == {<<"500">>, <<"timeout">>, <<"429">>, <<"404">>, <<"204">>}
OutageIndex(a) ==
    {[date |-> FallbackDates(y)[i], attempts |-> a,
      body |-> Results(<<BaseDoc(DocId(1), Str(Code72030), y)>>)]
        : y \in {NewestYear, OlderYear}, i \in 1..9}
InitSearchOutage ==
    /\ \E a \in FailingAttempts : remote_index = OutageIndex(a)
    /\ code = Code7203
    /\ years = <<NewestYear, OlderYear>>
    /\ jquants_annual_data = None
    /\ remote_docs = {} /\ fs = {} /\ api_key = TRUE
InitSearchNoKey ==
    /\ remote_index = {OlderFiling}
    /\ jquants_annual_data = None
    /\ code = Code7203
    /\ years \in {<< >>, <<OlderYear>>}
    /\ remote_docs = {} /\ fs = {}
    /\ api_key \in BOOLEAN
InitSearch ==
    /\ \/ InitSearchCodes
       \/ InitSearchFilter
       \/ InitSearchFailures
       \/ InitSearchWindow
       \/ InitSearchOutage
       \/ InitSearchNoKey
    /\ pc = "call"
    /\ sorted_years = << >>
    /\ year_idx = 0
    /\ all_reports = {}
    /\ search_log = << >>
    /\ request_log = << >>
    /\ fetch_result = {}

\* no filing search is made
IdleSearch ==
    /\ api_key = FALSE
    /\ code = << >>
    /\ years = << >>
    /\ jquants_annual_data = None
    /\ remote_index = {} /\ remote_docs = {} /\ fs = {}
    /\ pc = "idle"
    /\ sorted_years = << >>
    /\ year_idx = 0
    /\ all_reports = {}
    /\ search_log = << >>
    /\ request_log = << >>
    /\ fetch_result = {}

(***************************************************************************)
(* edinet_client.py: search_documents and fetch_reports called on their own *)
(***************************************************************************)
VARIABLES
    find_pc,        \* "call" before the call, "done" after it ("idle": no call)
    search_result,  \* what search_documents returned and the requests it issued
    reports_result  \* what fetch_reports returned and the requests it issued

findVars == <<find_pc, search_result, reports_result>>

NotSearched == [called |-> FALSE, documents |-> << >>, requests |-> << >>]

\* documents = client.search_documents(code=code, years=years,
\* jquants_data=jquants_data) (scripts/tests/test_xbrl_extraction.py line 349,
\* edinet_client.py line 908)
SearchDocuments ==
    /\ find_pc = "call"
    /\ \E r \in {search_documents(api_key, code, years, jquants_annual_data,
                                  remote_index, now)} :
           search_result' = [called |-> TRUE, documents |-> r.documents,
                     requests |-> r.requests]
    /\ find_pc' = "done"
    /\ UNCHANGED <<searchVars, reports_result>>

NotFetched == [called |-> FALSE, results |-> {}, documents |-> << >>,
               requests |-> << >>]

\* reports = client.fetch_reports(code, years) (scripts/test_edinet.py line
\* 59), here with the jquants_annual_data argument as well
FetchReports ==
    /\ find_pc = "call"
    /\ \E r \in {fetch_reports(api_key, code, years, jquants_annual_data,
                               remote_index, fs, remote_docs, now)} :
           /\ reports_result' = [called |-> TRUE, results |-> r.results,
                                 documents |-> r.documents,
                                 requests |-> r.requests]
           /\ fs' = r.fs
    /\ find_pc' = "done"
    /\ UNCHANGED <<api_key, code, years, jquants_annual_data, remote_index,
                   remote_docs, pc, sorted_years, year_idx, all_reports,
                   search_log, request_log, fetch_result, search_result>>

\* documents of the index of the two years: the annual report of the newest
\* year, the same report without a period-end, a half-year report whose
\* period ends in March, and the annual report of the older year
FindDocs ==
    {BaseDoc(DocId(1), Str(Code72030), NewestYear),
     Doc(DocId(1), Str(Code72030), Ordinance010, DocType030, Text(<<"yuho">>),
         Text(<<"toyota">>), None),
     Doc(DocId(2), Str(Code72030), Ordinance010, DocType050, Text(<<"hanki">>),
         Text(<<"toyota">>), PeriodEnd(NewestYear)),
     BaseDoc(DocId(9), Str(Code72030), OlderYear)}

\* pairs of days of the index: two fallback dates of the newest year, and a
\* fallback date of each year
FindDatePairs ==
    {<<FilingDate(NewestYear), IsoDate(NewestYear + 1, 6, 1)>>,
     <<FilingDate(NewestYear), FilingDate(OlderYear)>>}

\* J-QUANTS records of both years: the older year's figures were disclosed
\* again (a correction) ten days before today, so that the days searched for
\* the two years overlap
LateDisclosure ==
    <<JquantsRecord(PeriodEnd(NewestYear), Str(IsoDate(2024, 6, 19)), FullYear, None),
      JquantsRecord(PeriodEnd(OlderYear), Str(IsoDate(2024, 6, 10)), FullYear, None)>>

\* a search of one or two years
InitFindYears ==
    /\ \E p \in FindDatePairs : \E d1 \in FindDocs, d2 \in FindDocs :
          remote_index = {IndexOn(p[1], <<d1>>), IndexOn(p[2], <<d2>>)}
    /\ years \in {<<NewestYear>>, <<NewestYear, OlderYear>>, <<OlderYear, NewestYear>>}
    /\ jquants_annual_data \in {None, List(LateDisclosure)}
    /\ code = Code7203
    /\ api_key = TRUE

\* a search of the newest year around a disclosure date
InitFindWindow ==
    /\ \E d \in FilingDates :
          remote_index = {IndexOn(d, <<BaseDoc(DocId(1), Str(Code72030), NewestYear)>>)}
    /\ jquants_annual_data \in {List(j) : j \in JquantsSamples}
    /\ code = Code7203
    /\ years = <<NewestYear>>
    /\ api_key = TRUE

\* a search without an API key, and one the index fails to answer
InitFindFailures ==
    /\ \/ \E a \in IndexAnswers : remote_index \in {{a}, {a, OlderFiling}}
       \/ \E a \in FailingAttempts : remote_index = OutageIndex(a)
    /\ jquants_annual_data = None
    /\ code = Code7203
    /\ years \in {<< >>, <<NewestYear>>, <<NewestYear, OlderYear>>}
    /\ api_key \in BOOLEAN

\* a search in which one date of the newest year is answered in one of the
\* ways of IndexAnswers and another date of that year lists a report
InitFindPartial ==
    /\ \E a \in IndexAnswers :
       \E d \in {IsoDate(NewestYear + 1, 6, 1), IsoDate(NewestYear + 1, 6, 30)} :
          remote_index = {a, IndexOn(d, <<BaseDoc(DocId(2), Str(Code72030), NewestYear)>>),
                          OlderFiling}
    /\ jquants_annual_data = None
    /\ code = Code7203
    /\ years \in {<<NewestYear>>, <<NewestYear, OlderYear>>, <<OlderYear, NewestYear>>}
    /\ api_key = TRUE

InitFind ==
    /\ InitFindYears \/ InitFindWindow \/ InitFindFailures \/ InitFindPartial
    /\ remote_docs = {} /\ fs = {}
    /\ pc = "idle"
    /\ sorted_years = << >>
    /\ year_idx = 0
    /\ all_reports = {}
    /\ search_log = << >>
    /\ request_log = << >>
    /\ fetch_result = {}
    /\ find_pc = "call"
    /\ search_result = NotSearched
    /\ reports_result = NotFetched

\* search_documents is not called on its own
IdleFind ==
    /\ find_pc = "idle"
    /\ search_result = NotSearched
    /\ reports_result = NotFetched

(***************************************************************************)
(* edinet_client.py: download_document called on its own                   *)
(***************************************************************************)
VARIABLES
    download_log   \* the calls of download_document made so far

downloadVars == <<download_log>>

\* the most calls of download_document
MaxDownloads == 2

\* path = client.download_document(doc_id, doc_type=doc_type,
\* save_dir=save_dir): one call; the log keeps the directory before and
\* after it, the path returned and the requests issued
DownloadDocument ==
    /\ find_pc = "download"
    /\ Len(download_log) < MaxDownloads
    /\ \E doc_id \in {DocId(1), DocId(2)}, doc_type \in {1, 2} :
         \E r \in {download_document(api_key, doc_id, doc_type, fs, remote_docs)} :
           /\ download_log' = Append(download_log,
                                     [doc |-> doc_id, type |-> doc_type,
                                      before |-> fs, after |-> r.fs,
                                      path |-> r.path, requests |-> r.requests])
           /\ fs' = r.fs
    /\ UNCHANGED <<api_key, code, years, jquants_annual_data, remote_index,
                   remote_docs, pc, sorted_years, year_idx, all_reports,
                   search_log, request_log, fetch_result, findVars>>

\* the reports directory and the document API before the first call
InitDownload ==
    /\ \E x \in XbrlCases, p \in PdfCases :
          /\ remote_docs = x.remote \cup p.remote
          /\ fs = x.fs \cup p.fs
    /\ api_key \in BOOLEAN
    /\ code = Code7203
    /\ years = << >>
    /\ jquants_annual_data = None
    /\ remote_index = {}
    /\ pc = "idle"
    /\ sorted_years = << >>
    /\ year_idx = 0
    /\ all_reports = {}
    /\ search_log = << >>
    /\ request_log = << >>
    /\ fetch_result = {}
    /\ find_pc = "download"
    /\ search_result = NotSearched
    /\ reports_result = NotFetched
    /\ download_log = << >>

\* download_document is not called on its own
IdleDownload == download_log = << >>

(***************************************************************************)
(* Two pipelines at once: download_document and utils/cache.py             *)
(***************************************************************************)
\* Two workers run analyze_stock for two companies in one working directory.
\* Of a pipeline the steps that write to disk are kept: the download of the
\* company's filing into the reports directory and cache.set(cache_key,
\* result) of individual.py line 657.  The cache directory holds one file
\* {key}.pkl per key and the file metadata.json, a dict of the keys.
VARIABLES
    cache_files,      \* the .pkl files of the cache directory: a dict by key
    metadata,         \* the content of metadata.json: a dict by key
    worker_pc,        \* where each worker is
    worker_metadata,  \* the local variable metadata of each worker's cache.set
    worker_result,    \* what each worker's pipeline returns
    disk0             \* the directories before the workers started

workerVars == <<cache_files, metadata, worker_pc, worker_metadata, worker_result,
                disk0>>

Workers == {1, 2}

\* the company of a worker, its cache key f"individual_analysis_{code}" and
\* the filing it downloads
WorkerCode(w) == IF w = 1 THEN Code7203 ELSE Code0001
CacheKey(w)   == <<"individual_analysis_">> \o WorkerCode(w)
WorkerDoc(w)  == DocId(w)

\* lines 843-880 for the worker's filing.  The call is one step: the files
\* of two document ids are different files.
WorkerDownload(w) ==
    /\ worker_pc[w] = "download"
    /\ \E r \in {download_document(api_key, WorkerDoc(w), 1, fs, remote_docs)} :
           /\ fs' = r.fs
           /\ worker_result' = [worker_result EXCEPT ![w] = r.path]
    /\ worker_pc' = [worker_pc EXCEPT ![w] = "write"]
    /\ UNCHANGED <<cache_files, metadata, worker_metadata, disk0>>

\* cache.py lines 98-102: pickle.dump(value, f) into {key}.pkl
CacheWrite(w) ==
    /\ worker_pc[w] = "write"
    /\ cache_files' = DictSet(cache_files, CacheKey(w), worker_result[w])
    /\ worker_pc' = [worker_pc EXCEPT ![w] = "load"]
    /\ UNCHANGED <<fs, metadata, worker_metadata, worker_result, disk0>>

\* cache.py line 111: metadata = self._load_metadata()
CacheLoadMetadata(w) ==
    /\ worker_pc[w] = "load"
    /\ worker_metadata' = [worker_metadata EXCEPT ![w] = metadata]
    /\ worker_pc' = [worker_pc EXCEPT ![w] = "save"]
    /\ UNCHANGED <<fs, cache_files, metadata, worker_result, disk0>>

\* cache.py lines 112-113: metadata[key] = datetime.now().isoformat() and
\* self._save_metadata(metadata); the file is written in one step
CacheSaveMetadata(w) ==
    /\ worker_pc[w] = "save"
    /\ metadata' = DictSet(worker_metadata[w], CacheKey(w), strftime(now))
    /\ worker_pc' = [worker_pc EXCEPT ![w] = "done"]
    /\ UNCHANGED <<fs, cache_files, worker_metadata, worker_result, disk0>>

\* what no step of a worker changes
WorkerFrame ==
    UNCHANGED <<api_key, code, years, jquants_annual_data, remote_index,
                remote_docs, pc, sorted_years, year_idx, all_reports,
                search_log, request_log, fetch_result, findVars, downloadVars>>

\* entries the cache may hold of an earlier day
EarlierEntries ==
    {[k |-> CacheKey(1), v |-> strftime(fromordinal(toordinal(Today) - 1))],
     [k |-> <<"prices_">> \o Code7203, v |-> strftime(fromordinal(toordinal(Today) - 1))]}

InitWorkers ==
    /\ \E x \in XbrlCases, p \in PdfCases :
          /\ remote_docs = x.remote \cup p.remote
          /\ fs = x.fs \cup p.fs
    /\ metadata \in SUBSET EarlierEntries
    /\ cache_files = {[k |-> e.k, v |-> None] : e \in metadata}
    /\ worker_pc = [w \in Workers |-> "download"]
    /\ worker_metadata = [w \in Workers |-> {}]
    /\ worker_result = [w \in Workers |-> None]
    /\ disk0 = [fs |-> fs, cache_files |-> cache_files, metadata |-> metadata]
    /\ api_key = TRUE
    /\ code = << >>
    /\ years = << >>
    /\ jquants_annual_data = None
    /\ remote_index = {}
    /\ pc = "idle"
    /\ sorted_years = << >>
    /\ year_idx = 0
    /\ all_reports = {}
    /\ search_log = << >>
    /\ request_log = << >>
    /\ fetch_result = {}

\* no worker runs
IdleWorkers ==
    /\ cache_files = {}
    /\ metadata = {}
    /\ worker_pc = [w \in Workers |-> "idle"]
    /\ worker_metadata = [w \in Workers |-> {}]
    /\ worker_result = [w \in Workers |-> None]
    /\ disk0 = [fs |-> {}, cache_files |-> {}, metadata |-> {}]

(***************************************************************************)
(* individual.py: analyze_stock from the metrics on                        *)
(***************************************************************************)
\* analyze_stock after it has fetched the financial data, extracted
\* annual_data and fetched the prices (lines 374-502): the calculation of the
\* metrics (504-551), the EDINET block (553-649) and the return (659).
\* Writing the CSV file and the cache entry (lines 651-657) are left out.
VARIABLES
    analysis_pc,      \* "metrics", "edinet" or "done" ("idle": no call)
    analysis_result,  \* what analyze_stock returned: None or the result dict
    prep_raises,      \* whether lines 558-640 raise before fetch_edinet_reports
                      \* is called (sorted() of line 567 raises TypeError when
                      \* one DiscDate is null and another a string)
    summary_outcome   \* what extraction and summarization give for a bundle:
                      \* "summary", "empty" (no text) or "raise"

analyzeVars == <<analysis_pc, analysis_result, prep_raises, summary_outcome>>

\* lines 518, 534: metrics were computed and hold a year
Computable(m) == m.kind = "metrics" /\ Len(m.years) > 0

\* an exception of the EDINET block that reached analyze_stock's outer
\* handler (lines 661-663) would make it return None
edinet_error_propagates(result) == None

\* lines 648-649: the exception is logged; result stays as it was built
AfterEdinetError(result) == result

\* individual.py lines 903-979 for one report: the summary stored as
\* management_policy
ManagementPolicy(report, outcome) ==
    IF ~IsNone(report.xbrl_path) /\ outcome = "summary" THEN "summary" ELSE ""

\* all_reports[year]
ReportOf(reports, year) == (CHOOSE e \in reports : e.k = year).v

\* lines 642-644: edinet_data is stored if it is not empty
WithEdinetData(result, edinet_data) ==
    IF edinet_data # {}
    THEN [result EXCEPT !.edinet_data = [t |-> "dict", d |-> edinet_data]]
    ELSE result

\* lines 504-551: the metrics are calculated; None is returned if the
\* calculation raised or no year is left, else the EDINET block is entered
AnalyzeMetrics ==
    /\ analysis_pc = "metrics"
    /\ CalculateMetrics
    /\ IF Computable(metrics')
       THEN /\ analysis_pc' = "edinet"
            /\ analysis_result' = [t |-> "dict", metrics |-> metrics',
                                   edinet_data |-> Absent]
            /\ pc' = IF prep_raises THEN "idle" ELSE "call"
       ELSE /\ analysis_pc' = "done"
            /\ analysis_result' = None
            /\ UNCHANGED pc
    /\ UNCHANGED <<api_key, code, years, jquants_annual_data, remote_index,
                   remote_docs, fs, sorted_years, year_idx, all_reports,
                   search_log, request_log, fetch_result, prep_raises,
                   summary_outcome>>

\* lines 642-659: the end of the EDINET block and the return
AnalyzeReturn ==
    /\ analysis_pc = "edinet"
    /\ prep_raises \/ pc = "done"
    /\ analysis_result' =
          IF prep_raises THEN AfterEdinetError(analysis_result)
          ELSE WithEdinetData(analysis_result,
                   {[k |-> f.k,
                     v |-> [management_policy |->
                               ManagementPolicy(ReportOf(all_reports, f.k),
                                                summary_outcome)] @@ f.v]
                       : f \in fetch_result})
    /\ analysis_pc' = "done"
    /\ UNCHANGED <<calcVars, searchVars, prep_raises, summary_outcome>>

\* facts of the company: a usable year, two usable years, none, and a
\* period-end that is a number
AnalyzeFacts ==
    {<<Fact(FyEndOf(1), Int2Num(1), Int2Num(2))>>,
     <<Fact(FyEndOf(1), Int2Num(1), Int2Num(2)), Fact(FyEndOf(2), Int2Num(1), Int2Num(2))>>,
     <<Fact(FyEndOf(1), None, Str(<< >>))>>,
     <<Fact(Int2Num(20240331), Int2Num(5), None)>>}

InitAnalyze ==
    /\ annual_data \in AnalyzeFacts
    /\ prices = {}
    /\ analysis_years = Int2Num(Len(annual_data))
    /\ now = Today
    /\ seen_fy_ends = {}
    /\ metrics = NotCalled
    /\ prev_metrics = NotCalled
    /\ annual_data0 = annual_data
    /\ \/ InitSearchFailures
       \/ InitSearchOutage
       \/ InitSearchNoKey
    /\ pc = "idle"
    /\ sorted_years = << >>
    /\ year_idx = 0
    /\ all_reports = {}
    /\ search_log = << >>
    /\ request_log = << >>
    /\ fetch_result = {}
    /\ analysis_pc = "metrics"
    /\ analysis_result = None
    /\ prep_raises \in BOOLEAN
    /\ summary_outcome \in {"summary", "empty", "raise"}

\* analyze_stock is not called
IdleAnalyze ==
    /\ analysis_pc = "idle"
    /\ analysis_result = None
    /\ prep_raises = FALSE
    /\ summary_outcome = "summary"

(***************************************************************************)
(* individual.py: analyze_stock, the result served from the cache          *)
(***************************************************************************)
VARIABLES
    cache_file,         \* what the cache holds under individual_analysis_{code},
                        \* written today: the result of an earlier analysis
    cached_pc,          \* "idle", "start", "edinet" or "done"
    cached_result,      \* the object cache.get returned to the running call
    financial_data_ok,  \* whether get_financial_summary returns records
    call_start,         \* the length of request_log when the call began
    call_log            \* the calls that returned: what the cache held, what
                        \* was returned and the EDINET requests issued

cachedVars == <<cache_file, cached_pc, cached_result, financial_data_ok,
                call_start, call_log>>

\* the most calls of analyze_stock
MaxCalls == 2

\* cached_result.get("edinet_data", {}) is empty
LacksEdinetData(result) == result.edinet_data = Absent

\* the call returns cached_result
ReturnCached(cached, result, requests) ==
    call_log' = Append(call_log, [cached |-> cached, result |-> result,
                                  requests |-> requests])

\* lines 90-119, 216-372: cache.get returns today's entry (cache.py lines
\* 58-88).  Without filing data in it, and with J-QUANTS records to build
\* the years from, fetch_edinet_reports is called; without such records,
\* or with filing data whose summaries are all there, the cached result is
\* returned as it is.
CachedLookup ==
    /\ cached_pc \in {"start", "done"}
    /\ Len(call_log) < MaxCalls
    /\ cached_result' = cache_file
    /\ call_start' = Len(request_log)
    /\ IF LacksEdinetData(cache_file) /\ financial_data_ok
       THEN /\ cached_pc' = "edinet"
            /\ pc' = "call"
            /\ UNCHANGED call_log
       ELSE /\ cached_pc' = "done"
            /\ ReturnCached(cache_file, cache_file, << >>)
            /\ UNCHANGED pc
    /\ UNCHANGED <<api_key, code, years, jquants_annual_data, remote_index,
                   remote_docs, fs, sorted_years, year_idx, all_reports,
                   search_log, request_log, fetch_result, cache_file,
                   financial_data_ok>>

\* lines 208-217, 372: the filing data fetched is put into cached_result,
\* which is returned; cache.set is not called on this path
CachedReturn ==
    /\ cached_pc = "edinet"
    /\ pc = "done"
    /\ \E r \in {WithEdinetData(cached_result,
                    {[k |-> f.k,
                      v |-> [management_policy |->
                                ManagementPolicy(ReportOf(all_reports, f.k),
                                                 summary_outcome)] @@ f.v]
                        : f \in fetch_result})} :
          /\ cached_result' = r
          /\ ReturnCached(cache_file, r,
                          SubSeq(request_log, call_start + 1, Len(request_log)))
    /\ cached_pc' = "done"
    /\ UNCHANGED <<searchVars, cache_file, financial_data_ok, call_start>>

\* filing data as an earlier analysis stored it, with its summary
StoredEdinetData ==
    [t |-> "dict",
     d |-> {[k |-> NewestYear,
             v |-> [management_policy |-> "summary", docID |-> DocId(1)]]}]

\* the cache holds today's result of an analysis that got no filing data
\* (or one that got it), and analyze_stock is called again
InitCached ==
    /\ \/ InitSearchFailures
       \/ InitSearchOutage
       \/ InitSearchNoKey
    /\ pc = "idle"
    /\ sorted_years = << >>
    /\ year_idx = 0
    /\ all_reports = {}
    /\ search_log = << >>
    /\ request_log = << >>
    /\ fetch_result = {}
    /\ cache_file \in {[t |-> "dict", metrics |-> NotCalled, edinet_data |-> e]
                          : e \in {Absent, StoredEdinetData}}
    /\ cached_pc = "start"
    /\ cached_result = None
    /\ financial_data_ok \in BOOLEAN
    /\ call_start = 0
    /\ call_log = << >>

\* analyze_stock finds nothing in the cache
IdleCached ==
    /\ cache_file = None
    /\ cached_pc = "idle"
    /\ cached_result = None
    /\ financial_data_ok = TRUE
    /\ call_start = 0
    /\ call_log = << >>

(***************************************************************************)
(* xbrl_parser.py: texts                                                   *)
(***************************************************************************)
\* A text is a sequence of tokens, each a fixed string of the texts the
\* parser looks at:
\*   "tA" .. "tF"  the title of section A .. F
\*   "[", "]"      the brackets 【 and 】
\*   "n2"          a numeral before a bracket, as in ２【事業の内容】
\*   "m3"          （３）経営方針        "m3s"  （３） 経営方針
\*   "m5"          （５）研究開発
\*   "m6"          （６）設備
\*   "m8"          （８）将来予想
\*   "w10", "w60", "w500"   10, 60 and 500 characters of other words
\*   "<p>"         an HTML tag inside a text block (raw content only)
\* White space between tokens is not represented.
SectionIds == {"A", "B", "C", "D", "E", "F"}

\* COMMON_SECTIONS[section_id]['title']
TitleOf(section_id) ==
    CASE section_id = "A" -> "tA" [] section_id = "B" -> "tB"
      [] section_id = "C" -> "tC" [] section_id = "D" -> "tD"
      [] section_id = "E" -> "tE" [] section_id = "F" -> "tF"

\* len() of a token
TokLen(tok) ==
    CASE tok = "tA" -> 5  [] tok = "tB" -> 19 [] tok = "tC" -> 7
      [] tok = "tD" -> 32 [] tok = "tE" -> 6  [] tok = "tF" -> 8
      [] tok \in {"[", "]", "n2"} -> 1
      [] tok \in {"m3", "m5", "m8"} -> 7
      [] tok = "m3s" -> 8
      [] tok = "m6" -> 5
      [] tok = "w10" -> 10 [] tok = "w60" -> 60 [] tok = "w500" -> 500
      [] tok = "<p>" -> 3

RECURSIVE TextLen(_)
TextLen(text) == IF Len(text) = 0 THEN 0 ELSE TokLen(text[1]) + TextLen(Tail(text))

IsMarker(tok) == tok \in {"m3", "m3s", "m5", "m6", "m8"}

\* _extract_text_from_html_element_simple: the element's text without its
\* HTML tags
extract_text_from_html_element_simple(content) ==
    SelectSeq(content, LAMBDA tok : tok # "<p>")

\* The positions before which _normalize_text (lines 583-606) puts a line
\* break.  The first substitution matches a numbered heading together with
\* all that follows it up to the next "）", which is the one of the next
\* numbered heading: of the numbered headings of a text every second one is
\* matched, the first one first.  The other substitutions match a bracket
\* that is closed later, and the numeral before it.
IsMatchedMarker(text, i) ==
    /\ IsMarker(text[i])
    /\ Cardinality({j \in 1..(i - 1) : IsMarker(text[j])}) % 2 = 0
NoClosing(text, lo, hi) == \A k \in lo..hi : text[k] # "]"
\* the bracket at i opens a 【..】 that the third substitution matches: a "]"
\* follows after some text, and no earlier bracket's match runs over it,
\* which is the case when it is the first bracket since the last "]"
IsMatchedBracket(text, i) ==
    /\ text[i] = "["
    /\ \E c \in (i + 2)..Len(text) : text[c] = "]" /\ NoClosing(text, i + 1, c - 1)
    /\ ~\E o \in 1..(i - 1) : text[o] = "[" /\ NoClosing(text, o + 1, i - 1)
\* the numeral at i has a bracket behind it that is closed after some text
OpensNumeral(text, i) ==
    /\ text[i] = "n2"
    /\ i < Len(text)
    /\ text[i + 1] = "["
    /\ \E c \in (i + 3)..Len(text) : text[c] = "]" /\ NoClosing(text, i + 2, c - 1)
\* the numeral at i starts a match of the second substitution: no earlier
\* match runs over it
IsMatchedNumeral(text, i) ==
    /\ OpensNumeral(text, i)
    /\ ~\E o \in 1..(i - 1) : OpensNumeral(text, o) /\ NoClosing(text, o + 2, i)
LineBreaks(text) ==
    {i \in 1..Len(text) :
        \/ IsMatchedMarker(text, i)
        \/ IsMatchedBracket(text, i)
        \/ IsMatchedNumeral(text, i)}

\* the least element of a set of positions, 0 for the empty set
FirstOf(S) == IF S = {} THEN 0 ELSE CHOOSE k \in S : \A o \in S : k <= o

\* the line that starts at position b, as the positions of its first and
\* last token
LineAt(text, starts, b) ==
    [first |-> b,
     last  |-> IF \E n \in starts : n > b
               THEN FirstOf({n \in starts : n > b}) - 1
               ELSE Len(text)]
LinesOf(text, starts) ==
    [k \in 1..Cardinality(starts) |->
        LineAt(text, starts, CHOOSE b \in starts : Cardinality({o \in starts : o < b}) = k - 1)]

\* _normalize_text(text).split('\n'): the lines in order
Lines(text) == LinesOf(text, IF Len(text) = 0 THEN {} ELSE {1} \cup LineBreaks(text))

\* the first line from line from on that holds one of the tokens, 0 if
\* there is none
FirstLineWith(text, lines, toks, from) ==
    FirstOf({k \in from..Len(lines) :
                \E i \in lines[k].first..lines[k].last : text[i] \in toks})

\* lines 628-658: the lines from the first one with a start pattern up to
\* the next one with an end pattern, or up to the end of the text
SubsectionOf(text, lines, start_patterns, end_patterns) ==
    LET start_idx == FirstLineWith(text, lines, start_patterns, 1)
        end_idx   == FirstLineWith(text, lines, end_patterns, start_idx + 1)
    IN  IF start_idx = 0 THEN None
        ELSE [t |-> "tokens",
              s |-> SubSeq(text, lines[start_idx].first,
                           IF end_idx = 0 THEN Len(text)
                           ELSE lines[end_idx].first - 1)]

\* _extract_subsection_from_text (lines 608-658); None without a start
\* pattern
extract_subsection_from_text(text, start_patterns, end_patterns) ==
    SubsectionOf(text, Lines(text), start_patterns, end_patterns)

(***************************************************************************)
(* xbrl_parser.py: extract_sections_by_type                                *)
(***************************************************************************)
VARIABLES xbrl_dir, sections
xbrlVars == <<xbrl_dir, sections>>

\* xml.etree.ElementTree is part of the standard library: the import at
\* lines 21-25 succeeds
ET_AVAILABLE == TRUE

\* A tag is [section, exact, textblock]: the section whose xbrl_elements name
\* the tag contains ("none" if it contains none), whether the tag is that
\* name, and whether the tag contains 'TextBlock'.
Tag(section, exact, textblock) ==
    [section |-> section, exact |-> exact, textblock |-> textblock]

\* lines 327-334: the instance documents of the directory, the *.xml files
\* that are no linkbase first, then the *.xbrl files
InstanceFiles(dir) ==
    SelectSeq(dir.files, LAMBDA f : f.name = "xml") \o
    SelectSeq(dir.files, LAMBDA f : f.name = "xbrl")

\* all_text_blocks[local_tag] = text: a dict keeps the place of a key that
\* it already holds and takes the new value
SetBlock(blocks, tag, text) ==
    IF \E i \in 1..Len(blocks) : blocks[i].tag = tag
    THEN [i \in 1..Len(blocks) |->
             IF blocks[i].tag = tag THEN [tag |-> tag, text |-> text] ELSE blocks[i]]
    ELSE Append(blocks, [tag |-> tag, text |-> text])

\* an element taken by the length of what it holds before the HTML tags are
\* removed
collect_element_by_raw_length(blocks, elem) ==
    LET text == extract_text_from_html_element_simple(elem.content)
    IN  IF elem.tag.textblock /\ TextLen(elem.content) > 50
        THEN SetBlock(blocks, elem.tag, text)
        ELSE blocks

\* lines 360-372: one element of a document
CollectElement(blocks, elem) ==
    LET text == extract_text_from_html_element_simple(elem.content)
    IN  IF elem.tag.textblock /\ Len(text) > 0 /\ TextLen(text) > 50
        THEN SetBlock(blocks, elem.tag, text)
        ELSE blocks

RECURSIVE CollectElements(_, _)
CollectElements(blocks, elems) ==
    IF Len(elems) = 0 THEN blocks
    ELSE CollectElements(CollectElement(blocks, elems[1]), Tail(elems))

\* lines 344-380: the text blocks of all documents; a document that does
\* not parse is skipped
RECURSIVE CollectTextBlocks(_, _)
CollectTextBlocks(blocks, xml_files) ==
    IF Len(xml_files) = 0 THEN blocks
    ELSE CollectTextBlocks(
             IF xml_files[1].well_formed
             THEN CollectElements(blocks, xml_files[1].elements)
             ELSE blocks,
             Tail(xml_files))

\* the text of the first of the blocks at the positions hits, None if there
\* is none
FirstBlock(blocks, hits) ==
    IF hits = {} THEN None
    ELSE [t |-> "tokens", s |-> blocks[CHOOSE i \in hits : \A o \in hits : i <= o].text]

\* lines 386-396: the block whose name contains the section's element name
ByElementName(section_id, blocks) ==
    FirstBlock(blocks, {i \in 1..Len(blocks) : blocks[i].tag.section = section_id})

\* lines 424-450: the text of section B, given the lines of the management
\* analysis block and the subsection extracted from it
PolicyText(mda_block, lines, extracted) ==
    LET title_line_idx  == FirstLineWith(mda_block, lines, {TitleOf("B")}, 1)
        policy_line_idx == FirstLineWith(mda_block, lines, {"m3"}, 1)
    IN  IF IsNone(extracted) THEN None
        ELSE IF title_line_idx # 0 /\ policy_line_idx # 0 /\ policy_line_idx > title_line_idx
        THEN [t |-> "tokens",
              s |-> SubSeq(mda_block, lines[title_line_idx].first,
                           lines[policy_line_idx].first - 1) \o extracted.s]
        ELSE [t |-> "tokens", s |-> <<TitleOf("B")>> \o extracted.s]

\* lines 405-450: section B out of the management analysis block
PolicySubsection(mda_block) ==
    PolicyText(mda_block, Lines(mda_block),
               extract_subsection_from_text(mda_block, {"m3", "m3s"}, {"m5"}))

\* lines 402-467: sections B and F out of the block mda, if there is one
SubsectionOfMda(section_id, mda) ==
    IF IsNone(mda) THEN None
    ELSE IF section_id = "B" THEN PolicySubsection(mda.s)
    ELSE IF section_id = "F"
    THEN extract_subsection_from_text(mda.s, {"m6"}, {"m8"})
    ELSE None

\* lines 398-467: the management analysis block is looked up by its name
BySubsection(section_id, blocks) ==
    SubsectionOfMda(section_id,
        FirstBlock(blocks, {i \in 1..Len(blocks) :
            blocks[i].tag.section = "D" /\ blocks[i].tag.exact}))

\* pattern in block_text[:500]: the title lies within the first 500
\* characters
TitleInHead(text, title) ==
    \E i \in 1..Len(text) :
        text[i] = title /\ TextLen(SubSeq(text, 1, i)) <= 500

\* lines 469-495: the first block with the section's title in its head
ByTitlePhrase(section_id, blocks) ==
    FirstBlock(blocks, {i \in 1..Len(blocks) :
        \/ blocks[i].tag.section = section_id
        \/ TitleInHead(blocks[i].text, TitleOf(section_id))})

\* lines 508-581; the branch of lines 562-575 is not reached: the text from
\* the best match on starts with 【 or with the title
ensure_starts_with_section_title(text, section_title) ==
    LET found == {i \in 1..Len(text) :
                     \/ text[i] = section_title
                     \/ (text[i] = "[" /\ i < Len(text) /\ text[i + 1] = section_title)}
        best_idx == CHOOSE i \in found : \A o \in found : i <= o
        adjusted == SubSeq(text, best_idx, Len(text))
        closing  == {c \in 1..Len(adjusted) : adjusted[c] = "]"}
        end_idx  == CHOOSE c \in closing : \A o \in closing : c <= o
    IN  IF Len(text) > 0 /\ text[1] = section_title THEN text
        ELSE IF found = {} THEN <<section_title>> \o text
        ELSE IF adjusted[1] = "["
        THEN IF closing # {}
             THEN <<section_title>> \o SubSeq(adjusted, end_idx + 1, Len(adjusted))
             ELSE adjusted
        ELSE IF Len(adjusted) > 1 /\ adjusted[2] = "]"
        THEN <<section_title>> \o SubSeq(adjusted, 3, Len(adjusted))
        ELSE adjusted

\* the title-phrase search taken before the other two
title_phrase_first(by_name, by_subsection, by_title) ==
    IF ~IsNone(by_title) THEN by_title
    ELSE IF ~IsNone(by_name) THEN by_name
    ELSE by_subsection

\* the first of the three that is a text
FirstFound(by_name, by_subsection, by_title) ==
    IF ~IsNone(by_name) THEN by_name
    ELSE IF ~IsNone(by_subsection) THEN by_subsection
    ELSE by_title

\* lines 497-504: the text found is made to start with the title; a section
\* that was not found is the empty string
Anchored(section_text, section_title) ==
    IF IsNone(section_text) THEN << >>
    ELSE ensure_starts_with_section_title(section_text.s, section_title)

\* lines 382-504: one section, by the first of the three ways that gives a
\* text
SectionText(section_id, blocks) ==
    Anchored(FirstFound(ByElementName(section_id, blocks),
                        BySubsection(section_id, blocks),
                        ByTitlePhrase(section_id, blocks)),
             TitleOf(section_id))

\* result[section_id] = ... for each section of COMMON_SECTIONS
SixSections(blocks) ==
    {[k |-> section_id, v |-> SectionText(section_id, blocks)] : section_id \in SectionIds}

\* extract_sections_by_type(xbrl_dir), as the set of the (key, value) pairs
\* of the dict it returns
extract_sections_by_type(dir) ==
    IF ~ET_AVAILABLE THEN {}
    ELSE IF ~dir.exists \/ ~dir.is_dir THEN {}
    ELSE IF Len(InstanceFiles(dir)) = 0 THEN {}
    ELSE SixSections(CollectTextBlocks(<< >>, InstanceFiles(dir)))

\* individual.py calls the parser on the directory of a downloaded filing
ExtractSections ==
    /\ sections' = [called |-> TRUE, dict |-> extract_sections_by_type(xbrl_dir)]
    /\ UNCHANGED xbrl_dir

(***************************************************************************)
(* Inputs of the section extractor                                         *)
(***************************************************************************)
MaxElements == 2

Element(tag, content) == [tag |-> tag, content |-> content]
File(name, well_formed, elements) ==
    [name |-> name, well_formed |-> well_formed, elements |-> elements]
Dir(exists, is_dir, files) == [exists |-> exists, is_dir |-> is_dir, files |-> files]

OtherTag == Tag("none", FALSE, TRUE)
MdaTag   == Tag("D", TRUE, TRUE)

ElementSamples ==
    { Element(Tag("A", TRUE, TRUE),  <<"w60">>),
      Element(Tag("A", TRUE, TRUE),  <<"w10">>),
      Element(Tag("A", TRUE, TRUE),  <<"n2", "[", "tA", "]", "w500">>),
      Element(Tag("A", FALSE, TRUE), <<"tA", "]", "w60">>),
      Element(Tag("A", TRUE, FALSE), <<"tA", "w60">>),
      Element(Tag("B", TRUE, TRUE),  <<"w60", "tB", "w10">>),
      Element(OtherTag, <<"[", "tC", "w60">>),
      Element(OtherTag, <<"w500", "tE", "w60">>),
      Element(OtherTag, <<"w60", "[", "tE", "w10", "]", "w60">>),
      Element(OtherTag, <<"<p>", "w10", "<p>", "w10", "<p>", "w10", "<p>", "w10", "<p>", "w10", "<p>">>),
      Element(MdaTag, <<"n2", "[", "tD", "]", "w60", "tB", "w10", "m3", "w60",
                        "m5", "w10", "m6", "w60", "m8", "w10">>),
      Element(MdaTag, <<"w60", "m3s", "w10", "[", "m5", "]", "m6", "w60">>),
      Element(MdaTag, <<"w60", "m6", "w10", "m3", "w60", "m8", "w10", "m5">>) }

ElementLists ==
    UNION {[1..n -> ElementSamples] : n \in 0..MaxElements}

\* the directories without a document to read
BareDirs ==
    { Dir(FALSE, FALSE, << >>),
      Dir(TRUE, FALSE, << >>),
      Dir(TRUE, TRUE, << >>),
      Dir(TRUE, TRUE, <<File("linkbase", TRUE, << >>)>>),
      Dir(TRUE, TRUE, <<File("other", TRUE, << >>)>>) }

FileSamples ==
    { File("xml", FALSE, << >>),
      File("linkbase", TRUE, <<Element(Tag("A", TRUE, TRUE), <<"w60">>)>>),
      File("xml", TRUE, <<Element(Tag("A", TRUE, TRUE), <<"tA", "w60">>)>>),
      File("xbrl", TRUE, <<Element(Tag("A", TRUE, TRUE), <<"w60", "tA", "w10">>)>>),
      File("xbrl", TRUE, <<Element(OtherTag, <<"w60", "tF", "]", "w10">>)>>) }

FileLists == UNION {[1..n -> FileSamples] : n \in 1..2}

InitXbrlBare ==
    /\ xbrl_dir \in BareDirs
    /\ sections = [called |-> FALSE, dict |-> {}]

InitXbrlElements ==
    /\ \E elems \in ElementLists : xbrl_dir = Dir(TRUE, TRUE, <<File("xml", TRUE, elems)>>)
    /\ sections = [called |-> FALSE, dict |-> {}]

InitXbrlFiles ==
    /\ \E files \in FileLists : xbrl_dir = Dir(TRUE, TRUE, files)
    /\ sections = [called |-> FALSE, dict |-> {}]

InitXbrl == InitXbrlBare \/ InitXbrlElements \/ InitXbrlFiles

IdleXbrl ==
    /\ xbrl_dir = Dir(FALSE, FALSE, << >>)
    /\ sections = [called |-> FALSE, dict |-> {}]

(***************************************************************************)
(* Specifications                                                          *)
(***************************************************************************)
vars == <<calcVars, searchVars, xbrlVars, findVars, downloadVars, workerVars, analyzeVars, requestVars, cachedVars>>

\* the calculator alone
NextCalc ==
    CalculateMetrics
        /\ UNCHANGED <<searchVars, xbrlVars, findVars, downloadVars, workerVars, analyzeVars, requestVars, cachedVars>>
InitCalcAlone ==
    InitCalc /\ IdleSearch /\ IdleXbrl /\ IdleFind /\ IdleDownload /\ IdleWorkers
        /\ IdleAnalyze /\ IdleRequest /\ IdleCached
SpecCalc == InitCalcAlone /\ [][NextCalc]_vars

\* the filing search alone
NextSearch ==
    \/ BeginFetch
          /\ UNCHANGED <<calcVars, xbrlVars, findVars, downloadVars, workerVars, analyzeVars, requestVars, cachedVars>>
    \/ FetchYear
          /\ UNCHANGED <<calcVars, xbrlVars, findVars, downloadVars, workerVars, analyzeVars, requestVars, cachedVars>>
    \/ FinishFetch
          /\ UNCHANGED <<calcVars, xbrlVars, findVars, downloadVars, workerVars, analyzeVars, requestVars, cachedVars>>
InitSearchAlone ==
    InitSearch /\ IdleCalc /\ IdleXbrl /\ IdleFind /\ IdleDownload /\ IdleWorkers
        /\ IdleAnalyze /\ IdleRequest /\ IdleCached
SpecSearch == InitSearchAlone /\ [][NextSearch]_vars

\* the section extractor alone
NextXbrl ==
    ExtractSections
        /\ UNCHANGED <<calcVars, searchVars, findVars, downloadVars, workerVars, analyzeVars, requestVars, cachedVars>>
InitXbrlAlone ==
    InitXbrl /\ IdleCalc /\ IdleSearch /\ IdleFind /\ IdleDownload /\ IdleWorkers
        /\ IdleAnalyze /\ IdleRequest /\ IdleCached
SpecXbrl == InitXbrlAlone /\ [][NextXbrl]_vars

\* one call of search_documents or of fetch_reports
NextFind ==
    \/ SearchDocuments /\ UNCHANGED <<calcVars, xbrlVars, downloadVars, workerVars, analyzeVars, requestVars, cachedVars>>
    \/ FetchReports /\ UNCHANGED <<calcVars, xbrlVars, downloadVars, workerVars, analyzeVars, requestVars, cachedVars>>
InitFindAlone == InitFind /\ IdleCalc /\ IdleXbrl /\ IdleDownload /\ IdleWorkers
        /\ IdleAnalyze /\ IdleRequest /\ IdleCached
SpecFind == InitFindAlone /\ [][NextFind]_vars

\* one call of any of the three: fetch_edinet_reports, search_documents or
\* fetch_reports
NextClient == NextSearch \/ NextFind
InitClient == InitSearchAlone \/ InitFindAlone
SpecClient == InitClient /\ [][NextClient]_vars

\* calls of download_document
NextDownload == DownloadDocument /\ UNCHANGED <<calcVars, xbrlVars, workerVars, analyzeVars, requestVars, cachedVars>>
InitDownloadAlone ==
    InitDownload /\ IdleCalc /\ IdleXbrl /\ IdleWorkers /\ IdleAnalyze /\ IdleRequest /\ IdleCached
SpecDownload == InitDownloadAlone /\ [][NextDownload]_vars

\* two pipelines at once, their steps in any order
NextWorkers ==
    \/ \E w \in Workers :
          WorkerDownload(w) /\ WorkerFrame /\ UNCHANGED <<calcVars, xbrlVars, analyzeVars, requestVars, cachedVars>>
    \/ \E w \in Workers :
          CacheWrite(w) /\ WorkerFrame /\ UNCHANGED <<calcVars, xbrlVars, analyzeVars, requestVars, cachedVars>>
    \/ \E w \in Workers :
          CacheLoadMetadata(w) /\ WorkerFrame /\ UNCHANGED <<calcVars, xbrlVars, analyzeVars, requestVars, cachedVars>>
    \/ \E w \in Workers :
          CacheSaveMetadata(w) /\ WorkerFrame /\ UNCHANGED <<calcVars, xbrlVars, analyzeVars, requestVars, cachedVars>>
InitWorkersAlone ==
    InitWorkers /\ IdleCalc /\ IdleXbrl /\ IdleFind /\ IdleDownload /\ IdleAnalyze /\ IdleRequest /\ IdleCached
SpecWorkers == InitWorkersAlone /\ [][NextWorkers]_vars

\* analyze_stock from the metrics on, with the call of fetch_edinet_reports
NextAnalyze ==
    \/ AnalyzeMetrics /\ UNCHANGED <<xbrlVars, findVars, downloadVars, workerVars, requestVars, cachedVars>>
    \/ BeginFetch
          /\ UNCHANGED <<calcVars, xbrlVars, findVars, downloadVars, workerVars,
                         analyzeVars, requestVars, cachedVars>>
    \/ FetchYear
          /\ UNCHANGED <<calcVars, xbrlVars, findVars, downloadVars, workerVars,
                         analyzeVars, requestVars, cachedVars>>
    \/ FinishFetch
          /\ UNCHANGED <<calcVars, xbrlVars, findVars, downloadVars, workerVars,
                         analyzeVars, requestVars, cachedVars>>
    \/ AnalyzeReturn /\ UNCHANGED <<xbrlVars, findVars, downloadVars, workerVars, requestVars, cachedVars>>
InitAnalyzeAlone ==
    InitAnalyze /\ IdleXbrl /\ IdleFind /\ IdleDownload /\ IdleWorkers
        /\ IdleRequest /\ IdleCached
SpecAnalyze == InitAnalyzeAlone /\ [][NextAnalyze]_vars

\* one call of _request; the second specification adds that a step that
\* can be taken is taken: the GET returns or times out, the sleep ends
NextRequest ==
    \/ RequestGet
          /\ UNCHANGED <<calcVars, searchVars, xbrlVars, findVars, downloadVars,
                         workerVars, analyzeVars, cachedVars>>
    \/ RequestRetry
          /\ UNCHANGED <<calcVars, searchVars, xbrlVars, findVars, downloadVars,
                         workerVars, analyzeVars, cachedVars>>
InitRequestAlone ==
    InitRequest /\ IdleCalc /\ IdleSearch /\ IdleXbrl /\ IdleFind /\ IdleDownload
        /\ IdleWorkers /\ IdleAnalyze /\ IdleCached
SpecRequest == InitRequestAlone /\ [][NextRequest]_vars
SpecRequestLive == SpecRequest /\ WF_vars(NextRequest)

\* analyze_stock called again on the day its result was cached
NextCached ==
    \/ CachedLookup
          /\ UNCHANGED <<calcVars, xbrlVars, findVars, downloadVars, workerVars,
                         analyzeVars, requestVars>>
    \/ BeginFetch
          /\ UNCHANGED <<calcVars, xbrlVars, findVars, downloadVars, workerVars,
                         analyzeVars, requestVars, cachedVars>>
    \/ FetchYear
          /\ UNCHANGED <<calcVars, xbrlVars, findVars, downloadVars, workerVars,
                         analyzeVars, requestVars, cachedVars>>
    \/ FinishFetch
          /\ UNCHANGED <<calcVars, xbrlVars, findVars, downloadVars, workerVars,
                         analyzeVars, requestVars, cachedVars>>
    \/ CachedReturn
          /\ UNCHANGED <<calcVars, xbrlVars, findVars, downloadVars, workerVars,
                         analyzeVars, requestVars>>
InitCachedAlone ==
    InitCached /\ IdleCalc /\ IdleXbrl /\ IdleFind /\ IdleDownload /\ IdleWorkers
        /\ IdleAnalyze /\ IdleRequest
SpecCached == InitCachedAlone /\ [][NextCached]_vars

(***************************************************************************)
(* Properties of extract_sections_by_type                                  *)
(***************************************************************************)
SectionKeys == {p.k : p \in sections.dict}

\* C1: for every input directory, a nonexistent one, an empty one and one
\* without an instance document included, the returned map has exactly the
\* six keys A-F, and every section that was not resolved maps to the empty
\* string.
C1_AlwaysSixKeys ==
    sections.called =>
        /\ SectionKeys = SectionIds
        /\ \A id \in SectionIds : Cardinality({p \in sections.dict : p.k = id}) = 1

(***************************************************************************)
(* Properties of the filing search                                         *)
(***************************************************************************)
\* the years whose search returned at least one matching candidate
MatchedYears ==
    {search_log[i].year : i \in {j \in 1..Len(search_log) :
                                    Len(search_log[j].documents) > 0}}

\* C2: the years are processed newest first, and once a year has produced a
\* match no index request is issued for an older year and no older year's
\* filing is in the result.
C2_CommitsToFirstMatchingYear ==
    /\ \A i, j \in 1..Len(search_log) :
          i < j => search_log[i].year >= search_log[j].year
    /\ \A i \in 1..Len(request_log) :
          request_log[i].endpoint = "documents.json" =>
              \A y \in MatchedYears : request_log[i].year >= y
    /\ \A e \in all_reports : \A y \in MatchedYears : e.k >= y

\* the security code of a document as the matching reads it
SecCodeString(doc) == strip(StrOf(doc.secCode))

\* the input code's 4-digit form
FourDigitForm(c) == IF Len(c) >= 4 THEN Slice(c, 0, 4) ELSE c

\* C3: a returned candidate's security code equals the input's 4-digit form,
\* equals the input zero-padded to 5 digits, or is a 5-digit code whose
\* leading 4 digits equal the input's 4-digit code.
C3_ReturnedOnlyByThreeRules ==
    \A i \in 1..Len(search_log) :
        \A k \in 1..Len(search_log[i].documents) :
            LET doc == search_log[i].documents[k]
            IN  /\ ~IsNone(doc.secCode)
                /\ \/ SecCodeString(doc) = FourDigitForm(code)
                   \/ SecCodeString(doc) = zfill(code, 5)
                   \/ /\ Len(SecCodeString(doc)) = 5
                      /\ Slice(SecCodeString(doc), 0, 4) = FourDigitForm(code)

\* C4: every document a search returns carries a security code that is
\* present and not empty.
C4_ReturnedCandidatesCarrySecCode ==
    \A i \in 1..Len(search_log) :
        \A k \in 1..Len(search_log[i].documents) :
            LET doc == search_log[i].documents[k]
            IN  /\ ~IsNone(doc.secCode)
                /\ Len(SecCodeString(doc)) > 0

(***************************************************************************)
(* Properties of calculate_metrics_flexible                                *)
(***************************************************************************)
\* the per-year metrics of the last result (none if it holds no years)
YearMetrics == IF metrics.kind = "metrics" THEN metrics.years ELSE << >>

\* C5: in every YearMetric, ROE is null whenever equity is null, zero or
\* negative: no ratio is computed from a non-positive or absent denominator.
C5_RoeNullUnlessEquityPositive ==
    \A i \in 1..Len(YearMetrics) :
        LET ym == YearMetrics[i]
        IN  (IsNone(ym.eq) \/ FLeZero(ym.eq)) => IsNone(ym.roe)

\* C6: in every YearMetric, P/E (resp. P/B) is non-null only if the price
\* found for the period-end and the EPS (resp. BPS) are both strictly positive.
C6_PriceRatioNeedsPositivePriceAndPerShare ==
    \A i \in 1..Len(YearMetrics) :
        LET ym == YearMetrics[i]
            positivePrice == IsNum(ym.price) /\ ym.price.n > 0
        IN  /\ ~IsNone(ym.per) => (positivePrice /\ FGtZero(ym.eps))
            /\ ~IsNone(ym.pbr) => (positivePrice /\ FGtZero(ym.bps))

\* the seven growth-bearing metrics: the field of a YearMetric and the key
\* of its growth figure in the result
GrowthMetrics ==
    {<<"fcf", "fcf_growth">>, <<"roe", "roe_growth">>, <<"eps", "eps_growth">>,
     <<"sales", "sales_growth">>, <<"per", "per_growth">>, <<"pbr", "pbr_growth">>,
     <<"payout_ratio", "payout_growth">>}

\* the non-null values of a field among the analysed years, newest first
ValidValues(field) == SelectSeq(FieldValues(YearMetrics, field), NotNone)

\* g is (newest / oldest - 1) * 100
IsYoYOf(g, newest, oldest) ==
    /\ IsNum(g)
    /\ g.n * (newest.d * oldest.n)
         = g.d * 100 * (newest.n * oldest.d - newest.d * oldest.n)

\* g is ((newest / oldest) ^ (1 / periods) - 1) * 100
IsCagrOf(g, newest, oldest, periods) ==
    /\ g.t = "cagr"
    /\ g.years = periods
    /\ g.base.n * (newest.d * oldest.n) = g.base.d * (newest.n * oldest.d)

\* C7: for each of the seven metrics the growth figure is chosen by the
\* number n of non-null values among the analysed years: n < 2 gives null,
\* n = 2 gives the YoY between the first and the last non-null value, n >= 3
\* gives the CAGR between them over exactly n - 1 periods.
C7_GrowthMethodByValidCount ==
    metrics.kind = "metrics" =>
        \A m \in GrowthMetrics :
            LET vals   == ValidValues(m[1])
                n      == Len(vals)
                g      == metrics[m[2]]
                newest == vals[1]
                oldest == vals[n]
            IN  /\ n < 2 => IsNone(g)
                /\ (n = 2 /\ ~IsNone(g)) => IsYoYOf(g, newest, oldest)
                /\ (n >= 3 /\ ~IsNone(g)) => IsCagrOf(g, newest, oldest, n - 1)
                /\ (n >= 2 /\ FGtZero(newest) /\ FGtZero(oldest)) => ~IsNone(g)

\* three analysed years: EPS with two non-null values around a null one gets a
\* YoY figure, P/B with three non-null values a CAGR over two periods
C7_Witness ==
    /\ metrics.kind = "metrics"
    /\ Len(metrics.years) = 3
    /\ IsNone(metrics.years[2].eps)
    /\ metrics.eps_growth = Int2Num(100)
    /\ Len(ValidValues("pbr")) = 3
    /\ metrics.pbr_growth.t = "cagr"
    /\ metrics.pbr_growth.years = 2

\* C8: with at least two non-null values of a metric, the growth figure is
\* null if and only if the newest or the oldest non-null value is <= 0,
\* whatever the signs of the values in between.
C8_GrowthNullIffEndpointNotPositive ==
    metrics.kind = "metrics" =>
        \A m \in GrowthMetrics :
            LET vals == ValidValues(m[1])
                n    == Len(vals)
            IN  n >= 2 =>
                  (IsNone(metrics[m[2]]) <=> (FLeZero(vals[1]) \/ FLeZero(vals[n])))

\* a negative value between two positive ones, and a growth figure
C8_Witness ==
    /\ metrics.kind = "metrics"
    /\ Len(metrics.years) = 3
    /\ FLeZero(metrics.years[2].sales)
    /\ FGtZero(metrics.years[1].sales)
    /\ FGtZero(metrics.years[3].sales)
    /\ ~IsNone(metrics.sales_growth)

\* the records of a list that the pre-filter can keep: a period-end that is
\* present and not in the future, and at least one valid main value
UsableYears(data, today) ==
    {i \in 1..Len(data) :
        /\ Truthy(data[i].CurFYEn)
        /\ FutureCheck(data[i].CurFYEn, today) # "future"
        /\ has_valid_data(data[i])}

\* C9: the call never raises, whatever the shape of a record (the period-end
\* field included), and the result is empty only when no usable year remains.
C9_NeverRaisesOnMalformedRecord ==
    /\ metrics.kind # "raise"
    /\ metrics.kind = "empty" => UsableYears(annual_data, now) = {}

FoundIds == [i \in 1..Len(search_result.documents) |-> search_result.documents[i].docID]

\* C11: the candidates returned by one filing search contain no two entries
\* with the same document id, whether the document is listed on several
\* searched dates or reachable through the dates of several searched years.
C11_NoDuplicateDocIds ==
    search_result.called =>
        \A i, j \in 1..Len(FoundIds) : i # j => FoundIds[i] # FoundIds[j]

\* the fiscal year of a period-end: the year before for a period ending in
\* March, else the year of the period-end; None if the period-end is no date
AttributedYear(period_end) ==
    IF IsStr(period_end) /\ IsIsoDate(Slice(period_end.s, 0, 10))
    THEN Int2Num(FiscalYearOf(ParseIsoDate(Slice(period_end.s, 0, 10))))
    ELSE None

\* C12: a candidate with a present period-end is returned for a searched
\* year only if the fiscal year of its period-end (the year before for a
\* period ending in March, else the year of the period-end) is that year.
C12_ReturnedOnlyForAttributedYear ==
    \A i \in 1..Len(search_log) :
        \A k \in 1..Len(search_log[i].documents) :
            Truthy(search_log[i].documents[k].periodEnd) =>
                AttributedYear(search_log[i].documents[k].periodEnd)
                    = Int2Num(search_log[i].year)

(***************************************************************************)
(* Properties of the three entry points of the filing search               *)
(***************************************************************************)
\* every request of the index among requests failed: it raised or its
\* response was not a 200
IndexRequestsFailed(requests) ==
    \A i \in 1..Len(requests) :
        requests[i].endpoint = "documents.json" =>
            request(IndexEntry(remote_index, requests[i].date).attempts, 0).status # "200"

\* no search of search_log found a candidate
NothingFound == \A i \in 1..Len(search_log) : search_log[i].documents = << >>

\* C13: search_documents, fetch_reports and fetch_edinet_reports return, and
\* return an empty result, when the API key is missing, when every index
\* request fails and when the years are exhausted without a match; with a
\* missing key they issue no request.  (An exception raised inside them is
\* the outcome "raise" of request, PreScanRaises, UniqueScanRaises and
\* MatchDocuments; each is turned into an empty contribution.)
C13_FailuresGiveEmptyResult ==
    /\ pc = "done" =>
          /\ ~api_key => (fetch_result = {} /\ request_log = << >>)
          /\ IndexRequestsFailed(request_log) => fetch_result = {}
          /\ NothingFound => fetch_result = {}
    /\ search_result.called =>
          /\ ~api_key => (search_result.documents = << >>
                          /\ search_result.requests = << >>)
          /\ IndexRequestsFailed(search_result.requests)
                => search_result.documents = << >>
    /\ reports_result.called =>
          /\ ~api_key => (reports_result.results = {}
                          /\ reports_result.requests = << >>)
          /\ IndexRequestsFailed(reports_result.requests)
                => reports_result.results = {}
          /\ reports_result.documents = << >> => reports_result.results = {}

\* fetch_edinet_reports has returned after an outage of the index: it
\* searched both years, every request failed, and the result is empty
C13_Witness ==
    /\ pc = "done"
    /\ api_key
    /\ Len(search_log) = 2
    /\ request_log # << >>
    /\ IndexRequestsFailed(request_log)
    /\ \E i \in 1..Len(request_log) : request_log[i].attempts = MAX_RETRIES + 1
    /\ fetch_result = {}

(***************************************************************************)
(* Properties of download_document                                         *)
(***************************************************************************)
\* {doc}_xbrl is a directory of files (doc_type 1), {doc}.pdf is one of its
\* files (doc_type 2)
OnDisk(files, doc_id, doc_type) ==
    \E f \in files : f.doc = doc_id /\ f.kind = (IF doc_type = 1 THEN "dir" ELSE "pdf")
PathOf(doc_id, doc_type) ==
    IF doc_type = 1 THEN XbrlPath(doc_id) ELSE PdfPath(doc_id)

\* a call that found its target on disk returned the path of the target,
\* issued no request and left the directory as it was
ServedFromDisk(call) ==
    /\ call.path = PathOf(call.doc, call.type)
    /\ call.requests = << >>
    /\ call.after = call.before

\* C14 as stated: whenever {docId}_xbrl (type 1) or {docId}.pdf (type 2) is
\* already in the save directory, download_document returns that path, issues
\* no request and changes nothing on disk.
C14_ExistingTargetIsReturned ==
    \A i \in 1..Len(download_log) :
        OnDisk(download_log[i].before, download_log[i].doc, download_log[i].type)
            => ServedFromDisk(download_log[i])

\* C14 amended: with an API key the call is served from disk as stated, so a
\* second call after a successful first one downloads nothing; without a key
\* the call returns None, even if the target is on disk, and likewise issues
\* no request and changes nothing.
C14_ExistingTargetIsReturnedWithKey ==
    \A i \in 1..Len(download_log) :
        /\ (api_key /\ OnDisk(download_log[i].before, download_log[i].doc,
                              download_log[i].type))
              => ServedFromDisk(download_log[i])
        /\ ~api_key => /\ download_log[i].path = None
                       /\ download_log[i].requests = << >>
                       /\ download_log[i].after = download_log[i].before
        /\ \A j \in 1..(i - 1) :
              (/\ download_log[j].doc = download_log[i].doc
               /\ download_log[j].type = download_log[i].type
               /\ download_log[j].path # None)
                 => ServedFromDisk(download_log[i])

\* a first call downloaded and unpacked the bundle of a document, a second
\* call for the same bundle found it on disk
C14_Witness ==
    /\ Len(download_log) = 2
    /\ download_log[1].type = 1
    /\ download_log[1].requests # << >>
    /\ download_log[1].path = XbrlPath(download_log[1].doc)
    /\ download_log[2].doc = download_log[1].doc
    /\ download_log[2].type = 1
    /\ ServedFromDisk(download_log[2])

(***************************************************************************)
(* Properties of two pipelines at once                                     *)
(***************************************************************************)
\* the directories after the pipeline of worker w ran alone on disk, and what
\* the pipeline returned
RunAlone(w, disk) ==
    LET d == download_document(api_key, WorkerDoc(w), 1, disk.fs, remote_docs)
    IN  [fs |-> d.fs,
         cache_files |-> DictSet(disk.cache_files, CacheKey(w), d.path),
         metadata |-> DictSet(disk.metadata, CacheKey(w), strftime(now))]
ResultAlone(w, disk) ==
    download_document(api_key, WorkerDoc(w), 1, disk.fs, remote_docs).path

Disk == [fs |-> fs, cache_files |-> cache_files, metadata |-> metadata]

\* C15: two pipelines of different companies run at once without locking
\* behave as if run one after the other: each returns what it returns when
\* run alone, and the directories they leave are those of one of the two
\* serial orders.
C15_ConcurrentEqualsSerial ==
    (\A w \in Workers : worker_pc[w] = "done") =>
        /\ \A w \in Workers : worker_result[w] = ResultAlone(w, disk0)
        /\ \/ Disk = RunAlone(2, RunAlone(1, disk0))
           \/ Disk = RunAlone(1, RunAlone(2, disk0))

(***************************************************************************)
(* C16: analyze_stock returns the metrics whatever the filing stages do    *)
(***************************************************************************)
\* a stage of the filing part failed or found nothing: the preparation or
\* the search, a download, or the extraction and summarization
FilingStageFailed ==
    \/ prep_raises
    \/ fetch_result = {}
    \/ summary_outcome # "summary"
    \/ \E e \in all_reports : IsNone(e.v.xbrl_path) \/ IsNone(e.v.pdf_path)

\* the summary of the report of a year could not be made
NoSummaryFor(year) ==
    \/ summary_outcome # "summary"
    \/ IsNone(ReportOf(all_reports, year).xbrl_path)

ShortElement(elem) ==
    /\ elem.tag.textblock
    /\ TextLen(SelectSeq(elem.content, LAMBDA tok : tok # "<p>")) <= 50

\* the directory without the short TextBlock elements of its documents
WithoutShortElements(dir) ==
    [dir EXCEPT !.files =
        [i \in 1..Len(dir.files) |->
            [dir.files[i] EXCEPT !.elements =
                SelectSeq(dir.files[i].elements, LAMBDA e : ~ShortElement(e))]]]

\* the TextBlock elements of the documents of the directory that are read
TextBlocksRead(dir) ==
    UNION {{f.elements[i] : i \in {j \in 1..Len(f.elements) : f.elements[j].tag.textblock}}
              : f \in {InstanceFiles(dir)[k] :
                          k \in {j \in 1..Len(InstanceFiles(dir)) :
                                    InstanceFiles(dir)[j].well_formed}}}

\* the blocks collected from the directory
CollectedBlocks(dir) == CollectTextBlocks(<< >>, InstanceFiles(dir))

\* C17: after an extraction, no collected block has 50 characters or fewer;
\* the sections are the ones the directory gives without its TextBlock
\* elements of at most 50 characters (decoded, without tags), so that no such
\* element is a section text or a part of one; and if the directory holds no
\* longer TextBlock element, every section is the empty string.
C17_ShortBlocksNeverCollected ==
    sections.called =>
        /\ \A i \in 1..Len(CollectedBlocks(xbrl_dir)) :
              TextLen(CollectedBlocks(xbrl_dir)[i].text) > 50
        /\ sections.dict = extract_sections_by_type(WithoutShortElements(xbrl_dir))
        /\ (\A e \in TextBlocksRead(xbrl_dir) : ShortElement(e)) =>
              \A p \in sections.dict : p.v = << >>

\* an extraction from a document whose only TextBlock elements are short, one
\* of them named as section A is: section A is the empty string
C17_Witness ==
    /\ sections.called
    /\ \E e \in TextBlocksRead(xbrl_dir) : e.tag.section = "A" /\ e.tag.exact
    /\ \E e \in TextBlocksRead(xbrl_dir) : TextLen(e.content) > 50
    /\ \A e \in TextBlocksRead(xbrl_dir) : ShortElement(e)
    /\ [k |-> "A", v |-> << >>] \in sections.dict

(***************************************************************************)
(* C18: the days queried for a year with a prior fact                      *)
(***************************************************************************)
\* the prior facts of a year that carry a disclosure date, and the one the
\* search goes by
PriorFacts(year) ==
    IF Truthy(jquants_annual_data)
    THEN AvailableData(year, JquantsMapping(jquants_annual_data.v, 1, {}, now))
    ELSE {}
DiscDay(year)   == toordinal(ParseIsoDate(LatestData(PriorFacts(year)).disc_date))
PeriodDay(year) == toordinal(LatestData(PriorFacts(year)).period_end)

\* the days search_documents asked the index for on behalf of the year
QueriedDays(year) ==
    {toordinal(ParseIsoDate(search_result.requests[i].date)) :
        i \in {j \in 1..Len(search_result.requests) :
                  search_result.requests[j].year = year}}

\* the days of [max(D-7, P), min(D+60, P+90, now)]
WindowDays(d, p, n) ==
    {day \in (d - 7)..(d + 60) : day >= p /\ day <= p + 90 /\ day <= n}
\* the days of [D-7, min(D+30, now)]
DaysAroundDisclosure(d, n) == {day \in (d - 7)..(d + 30) : day <= n}

SearchedYears == {years[i] : i \in 1..Len(years)}

\* C18 as stated: after a search, the days queried for a searched year with
\* a prior fact of disclosure date D and period end P are exactly the days
\* of [max(D-7, P), min(D+60, P+90, now)].
C18_QueriedDaysAreTheWindow ==
    (search_result.called /\ api_key) =>
        \A y \in SearchedYears :
            PriorFacts(y) # {} =>
                QueriedDays(y) = WindowDays(DiscDay(y), PeriodDay(y), toordinal(now))

\* C18, amended: the days queried are exactly the days of that window if it
\* holds a day; if it is empty (the disclosure is more than 97 days after
\* the period end), they are exactly the days of [D-7, min(D+30, now)].
C18_QueriedDaysAreTheWindowOrAroundDisclosure ==
    (search_result.called /\ api_key) =>
        \A y \in SearchedYears :
            PriorFacts(y) # {} =>
                QueriedDays(y) =
                    IF WindowDays(DiscDay(y), PeriodDay(y), toordinal(now)) # {}
                    THEN WindowDays(DiscDay(y), PeriodDay(y), toordinal(now))
                    ELSE DaysAroundDisclosure(DiscDay(y), toordinal(now))

\* a search of a year whose window ends today and starts at the period end
\* or seven days before the disclosure: every day of it was queried
C18_Witness ==
    /\ search_result.called
    /\ api_key
    /\ \E y \in SearchedYears :
          /\ PriorFacts(y) # {}
          /\ toordinal(now) \in QueriedDays(y)
          /\ DiscDay(y) + 60 > toordinal(now)
          /\ Cardinality(QueriedDays(y)) > 7
          /\ QueriedDays(y) = WindowDays(DiscDay(y), PeriodDay(y), toordinal(now))

(***************************************************************************)
(* C19: a tag name that occurs more than once                              *)
(***************************************************************************)
\* the elements of the documents in the order they are scanned
RECURSIVE ScanOrder(_)
ScanOrder(xml_files) ==
    IF Len(xml_files) = 0 THEN << >>
    ELSE (IF xml_files[1].well_formed THEN xml_files[1].elements ELSE << >>)
             \o ScanOrder(Tail(xml_files))

\* the occurrences that qualify: TextBlock elements of more than 50
\* characters
QualifyingOccurrences(dir) ==
    SelectSeq(ScanOrder(InstanceFiles(dir)),
              LAMBDA e : e.tag.textblock /\ ~ShortElement(e))

\* the text of the first qualifying occurrence of the tag
FirstOccurrence(dir, tag) ==
    LET occ == QualifyingOccurrences(dir)
        i   == CHOOSE k \in 1..Len(occ) :
                   occ[k].tag = tag /\ \A o \in 1..(k - 1) : occ[o].tag # tag
    IN  SelectSeq(occ[i].content, LAMBDA tok : tok # "<p>")

\* C19: after an extraction, the block collected for a tag name is the text
\* of the first qualifying occurrence of that tag name in scan order.
C19_FirstOccurrenceWins ==
    sections.called =>
        \A i \in 1..Len(CollectedBlocks(xbrl_dir)) :
            CollectedBlocks(xbrl_dir)[i].text =
                FirstOccurrence(xbrl_dir, CollectedBlocks(xbrl_dir)[i].tag)

(***************************************************************************)
(* C20: a section text starts with the section's title                     *)
(***************************************************************************)
\* C20: after an extraction, every section text that is not the empty
\* string begins with the canonical title of its section.
C20_SectionStartsWithTitle ==
    sections.called =>
        \A p \in sections.dict : p.v # << >> => p.v[1] = TitleOf(p.k)

(***************************************************************************)
(* C21: the order of the three ways to find a section                      *)
(***************************************************************************)
\* the value of the section in the dict returned
SectionValue(section_id) ==
    (CHOOSE p \in sections.dict : p.k = section_id).v

\* what each way gives for the section from the blocks of the directory
Tier1(section_id) == ByElementName(section_id, CollectedBlocks(xbrl_dir))
Tier2(section_id) == BySubsection(section_id, CollectedBlocks(xbrl_dir))
Tier3(section_id) == ByTitlePhrase(section_id, CollectedBlocks(xbrl_dir))

\* C21: after an extraction that returned the six sections, a section is
\* the anchored text of the element-name match if there is one, whatever the
\* other two ways give; else the anchored text of the subsection slice if
\* there is one (sections B and F only); else that of the title-phrase
\* match, and the empty string if there is none.
C21_FirstTierWins ==
    (sections.called /\ sections.dict # {}) =>
        \A id \in SectionIds :
            /\ ~IsNone(Tier1(id)) =>
                  SectionValue(id) = Anchored(Tier1(id), TitleOf(id))
            /\ (IsNone(Tier1(id)) /\ ~IsNone(Tier2(id))) =>
                  /\ id \in {"B", "F"}
                  /\ SectionValue(id) = Anchored(Tier2(id), TitleOf(id))
            /\ (IsNone(Tier1(id)) /\ IsNone(Tier2(id))) =>
                  SectionValue(id) = Anchored(Tier3(id), TitleOf(id))

\* an extraction in which the element-name match of a section and its
\* title-phrase match are different texts: the element-name match gave the
\* section
C21_Witness ==
    /\ sections.called
    /\ sections.dict # {}
    /\ \E id \in SectionIds :
          /\ ~IsNone(Tier1(id))
          /\ ~IsNone(Tier3(id))
          /\ Anchored(Tier1(id), TitleOf(id)) # Anchored(Tier3(id), TitleOf(id))
          /\ SectionValue(id) = Anchored(Tier1(id), TitleOf(id))

(***************************************************************************)
(* C22: the years of the result are the first survivors of the pre-filter  *)
(***************************************************************************)
\* record i passes the pre-filter on its own: it has a period-end that is
\* not in the future and a valid main value
PassesPreFilter(data, i) ==
    /\ Truthy(data[i].CurFYEn)
    /\ data[i].CurFYEn.t = "str"
    /\ FutureCheck(data[i].CurFYEn, now) = "ok"
    /\ has_valid_data(data[i])

\* the positions of the records that survive: the first passing record of
\* each period-end
SurvivorPositions(data) ==
    {i \in 1..Len(data) :
        /\ PassesPreFilter(data, i)
        /\ \A o \in 1..(i - 1) :
              PassesPreFilter(data, o) => data[o].CurFYEn # data[i].CurFYEn}

\* the position of the k-th survivor
SurvivorAt(data, k) ==
    CHOOSE i \in SurvivorPositions(data) :
        Cardinality({o \in SurvivorPositions(data) : o < i}) = k - 1

\* the years asked for
YearsAskedFor ==
    IF IsNone(analysis_years) THEN Min(Len(annual_data), MaxAnalysisYears)
    ELSE analysis_years.n

\* the period-ends of the YearMetric list returned ({} has none)
ReturnedFyEnds ==
    IF metrics.kind = "metrics"
    THEN [i \in 1..Len(metrics.years) |-> metrics.years[i].fy_end]
    ELSE << >>

\* C22: after a calculation that did not raise, the period-ends of the
\* YearMetric list are, in input order, those of the first
\* min(analysisYears, k) of the k records that survive the pre-filter; the
\* list never holds more than analysisYears entries.
C22_FirstSurvivorsInInputOrder ==
    metrics.kind \in {"metrics", "empty"} =>
        /\ Len(ReturnedFyEnds) =
              Min(YearsAskedFor, Cardinality(SurvivorPositions(annual_data)))
        /\ Len(ReturnedFyEnds) <= YearsAskedFor
        /\ \A i \in 1..Len(ReturnedFyEnds) :
              ReturnedFyEnds[i] = annual_data[SurvivorAt(annual_data, i)].CurFYEn
        /\ \A i \in 1..Len(ReturnedFyEnds) : \A j \in 1..Len(ReturnedFyEnds) :
              ReturnedFyEnds[i] = ReturnedFyEnds[j] => i = j

(***************************************************************************)
(* C23: _request terminates after at most MAX_RETRIES retries              *)
(***************************************************************************)
RequestOver == req_pc \in {"returned", "raised"}

\* the wait before retry k + 1, which follows attempt k + 1
ClaimedWait(k) ==
    IF req_attempts[k + 1] = "429"
    THEN RETRY_DELAY * Pow2(k) + RATE_LIMIT_WAIT
    ELSE RETRY_DELAY * Pow2(k)

\* the retries and waits of a call of _request so far
RetriesWithinBudget ==
    /\ Len(req_attempts) <= MAX_RETRIES + 1
    /\ Len(req_sleeps) <= MAX_RETRIES
    /\ retry_count <= MAX_RETRIES
    /\ \A k \in 0..(Len(req_sleeps) - 1) :
          /\ req_attempts[k + 1] \in {"429", "timeout"}
          /\ req_sleeps[k + 1] = ClaimedWait(k)
    /\ (RequestOver /\ req_attempts[Len(req_attempts)] \in {"429", "timeout"}) =>
          /\ req_pc = "raised"
          /\ Len(req_attempts) = MAX_RETRIES + 1
          /\ Len(req_sleeps) = MAX_RETRIES

\* C23: a call of _request always comes to an end; at every moment it has
\* issued at most MAX_RETRIES + 1 GETs and slept at most MAX_RETRIES times,
\* whatever mix of 429 answers and network failures it met; before retry k
\* (k from 0) it slept RETRY_DELAY * 2^k after a network failure and
\* RETRY_DELAY * 2^k + RATE_LIMIT_WAIT after a 429; and when it ends on such
\* a failure it has used all its attempts and raises a request error.
C23_RequestTerminatesWithinBudget ==
    /\ [](req_pc # "idle" => RetriesWithinBudget)
    /\ <>RequestOver

\* a call that met both a 429 and a network failure, used all its attempts
\* and raised
C23_Witness ==
    /\ req_pc = "raised"
    /\ Len(req_attempts) = MAX_RETRIES + 1
    /\ \E i \in 1..Len(req_attempts) : req_attempts[i] = "429"
    /\ \E i \in 1..Len(req_attempts) : req_attempts[i] = "timeout"
    /\ Len(req_sleeps) = MAX_RETRIES

(***************************************************************************)
(* C24: a failed index request of one date                                 *)
(***************************************************************************)
\* the request of the date failed: an exception after the retries, a 404 or
\* another status than 200, a body that is no JSON, or an error payload
FailedEntry(entry) ==
    \/ request(entry.attempts, 0).status # "200"
    \/ entry.body.kind \in {"badjson", "statusCode"}

\* the index with nothing listed on the dates whose request fails
IndexWithoutFailedDates == {e \in remote_index : ~FailedEntry(e)}

\* the years and dates of index requests, in order
DatesOf(requests) ==
    [i \in 1..Len(requests) |-> <<requests[i].year, requests[i].date>>]

\* what the search gives on the index without the failing dates
SearchWithoutFailedDates ==
    search_documents(TRUE, code, years, jquants_annual_data,
                     IndexWithoutFailedDates, now)

\* C24: after a search, the documents returned are the ones the search
\* returns when nothing is listed on the dates whose request fails, and the
\* dates queried, of that year and of the following years, are the same and
\* in the same order as when no request fails.
C24_FailedDateOnlyLosesItsOwnDocuments ==
    (search_result.called /\ api_key) =>
        /\ search_result.documents = SearchWithoutFailedDates.documents
        /\ DatesOf(search_result.requests) = DatesOf(SearchWithoutFailedDates.requests)

\* a search in which the request of a date failed, a later date of the same
\* year and a following year were queried, and the report listed on the
\* later date was returned
C24_Witness ==
    /\ search_result.called
    /\ api_key
    /\ \E i \in 1..Len(search_result.requests) :
          /\ FailedEntry(IndexEntry(remote_index, search_result.requests[i].date))
          /\ \E j \in (i + 1)..Len(search_result.requests) :
                /\ search_result.requests[j].year = search_result.requests[i].year
                /\ \E k \in 1..Len(search_result.documents) :
                      /\ search_result.documents[k].docID = DocId(2)
                      /\ search_result.documents[k] \in
                            {IndexEntry(remote_index, search_result.requests[j].date).body.docs[n]
                                : n \in 1..Len(IndexEntry(remote_index, search_result.requests[j].date).body.docs)}
          /\ \E j \in (i + 1)..Len(search_result.requests) :
                search_result.requests[j].year # search_result.requests[i].year

(***************************************************************************)
(* C25: what the filter of the filing search lets through                  *)
(***************************************************************************)
\* the ordinance code is 010 or 020
OrdinanceListed(doc) ==
    doc.ordinanceCode \in {Str(zfill(StrOfNat(10), 3)), Str(zfill(StrOfNat(20), 3))}

\* the type code starts with 030 or 050, or the description names an annual
\* or a semiannual report
AnnualOrSemiannual(doc) ==
    \/ /\ doc.docTypeCode.t = "str"
       /\ Len(doc.docTypeCode.s) >= 3
       /\ SubSeq(doc.docTypeCode.s, 1, 3) \in {zfill(StrOfNat(30), 3), zfill(StrOfNat(50), 3)}
    \/ /\ doc.docDescription.t = "text"
       /\ \E n \in 1..Len(doc.docDescription.w) : doc.docDescription.w[n] \in {"yuho", "hanki"}

\* the description indicates an amendment
IndicatesAmendment(doc) ==
    /\ doc.docDescription.t = "text"
    /\ \E n \in 1..Len(doc.docDescription.w) : doc.docDescription.w[n] \in {"teisei", "hosei"}

\* C25: every document a search returns has ordinance code 010 or 020, is an
\* annual or a semiannual report by its type code or its description, and
\* has a description that indicates no amendment.
C25_ReturnedPassTheFilter ==
    \A i \in 1..Len(search_log) :
        \A k \in 1..Len(search_log[i].documents) :
            /\ OrdinanceListed(search_log[i].documents[k])
            /\ AnnualOrSemiannual(search_log[i].documents[k])
            /\ ~IndicatesAmendment(search_log[i].documents[k])

\* a search that returned a report of the newest year although the index
\* listed, before it on the same date, an amendment of the company's report
C25_Witness ==
    \E i \in 1..Len(search_log) :
        /\ \E k \in 1..Len(search_log[i].documents) :
              search_log[i].documents[k].periodEnd = PeriodEnd(NewestYear)
        /\ \E e \in remote_index :
              /\ e.body.kind = "results"
              /\ Len(e.body.docs) = 2
              /\ IndicatesAmendment(e.body.docs[1])
              /\ OrdinanceListed(e.body.docs[1])
              /\ \A k \in 1..Len(search_log[i].documents) :
                    search_log[i].documents[k].docID # e.body.docs[1].docID
              /\ \E k \in 1..Len(search_log[i].documents) :
                    search_log[i].documents[k].docID = e.body.docs[2].docID

(***************************************************************************)
(* C26: the bundle directory of a download that failed part-way            *)
(***************************************************************************)
\* the call asked for the bundle, issued its request and failed with the
\* ZIP written or the directory {doc}_xbrl made, but not unpacked
FailedPartWay(call) ==
    /\ call.type = 1
    /\ call.requests # << >>
    /\ IsNone(call.path)
    /\ \E f \in call.after \ call.before : f.doc = call.doc

\* C26: after a call for a bundle that failed part-way, no later call for
\* the same document returns the directory {doc}_xbrl while the bundle in it
\* is not completely unpacked.
C26_IncompleteBundleIsNoCacheHit ==
    \A i, j \in 1..Len(download_log) :
        (/\ i < j
         /\ FailedPartWay(download_log[i])
         /\ download_log[j].doc = download_log[i].doc
         /\ download_log[j].type = 1
         /\ [kind |-> "dir", doc |-> download_log[j].doc, complete |-> FALSE]
                \in download_log[j].after)
            => download_log[j].path # XbrlPath(download_log[j].doc)

(***************************************************************************)
(* C27: the semiannual reports of the year-agreement step                  *)
(***************************************************************************)
\* the candidate is a semiannual report by its own type code or description
OwnSemiannual(doc) ==
    \/ /\ doc.docTypeCode.t = "str"
       /\ Len(doc.docTypeCode.s) >= 3
       /\ SubSeq(doc.docTypeCode.s, 1, 3) = zfill(StrOfNat(50), 3)
    \/ /\ doc.docDescription.t = "text"
       /\ \E n \in 1..Len(doc.docDescription.w) : doc.docDescription.w[n] = "hanki"

\* the period of the document ends in the March that closes the fiscal year
\* after the searched one: the year-agreement step accepts such a document
\* for the searched year only when it treats it as a semiannual report
EndsOneMarchLater(doc, year) ==
    /\ doc.periodEnd.t = "str"
    /\ doc.periodEnd.s = IsoDate(year + 2, 3, 31)

\* C27: a document returned for a searched year with a period-end one March
\* later, which the year-agreement step accepts for semiannual reports only,
\* is a semiannual report by its own type code or description, whatever
\* other documents the window lists and in whatever order.
C27_SemiannualByOwnFieldsOnly ==
    \A i \in 1..Len(search_log) :
        \A k \in 1..Len(search_log[i].documents) :
            EndsOneMarchLater(search_log[i].documents[k], search_log[i].year)
                => OwnSemiannual(search_log[i].documents[k])

(***************************************************************************)
(* C28: the year a report without period-end is filed under                *)
(***************************************************************************)
\* the document was found once, for one searched year only
FoundOnce(documents, k) ==
    \A j \in 1..Len(documents) : documents[j].docID = documents[k].docID => j = k

\* C28: a document without period-end that the search found, once, while it
\* searched a year is filed by fetch_reports under exactly that year.
C28_AbsentPeriodEndKeyedBySearchedYear ==
    reports_result.called =>
        \A k \in 1..Len(reports_result.documents) :
            (/\ reports_result.documents[k].matched_year # Absent
             /\ FoundOnce(reports_result.documents, k))
                => \A e \in reports_result.results :
                       e.v.docID = reports_result.documents[k].docID
                           => e.k = reports_result.documents[k].matched_year.n

(***************************************************************************)
(* C29: the legacy *_cagr fields                                           *)
(***************************************************************************)
\* the growth-bearing metrics and their legacy fields
CagrMetrics ==
    {<<"fcf", "fcf_cagr">>, <<"roe", "roe_cagr">>, <<"eps", "eps_cagr">>,
     <<"sales", "sales_cagr">>, <<"per", "per_cagr">>, <<"pbr", "pbr_cagr">>,
     <<"payout_ratio", "payout_cagr">>}

\* C29: a legacy *_cagr field that is present and not null is a CAGR, and
\* the metric has at least 3 non-null values among the analysed years.
C29_LegacyCagrOnlyFromThreeValues ==
    metrics.kind = "metrics" =>
        \A m \in CagrMetrics :
            (metrics[m[2]].t \notin {"none", "absent"})
                => /\ Len(ValidValues(m[1])) >= 3
                   /\ metrics[m[2]].t = "cagr"

(***************************************************************************)
(* C30: filing data fetched for a cached result                            *)
(***************************************************************************)
\* the call served a cached result without filing data, and its fetch gave
\* filing data
FetchedForCachedResult(call) ==
    /\ LacksEdinetData(call.cached)
    /\ ~LacksEdinetData(call.result)

\* C30: after a call that served a cached result without filing data and
\* fetched the filing data, every later call of the day finds that data in
\* the cache and issues no request for the filing index or for a document.
C30_LaterCallsIssueNoRequest ==
    \A i \in 1..Len(call_log) :
        FetchedForCachedResult(call_log[i]) =>
            \A j \in (i + 1)..Len(call_log) : call_log[j].requests = << >>

=============================================================================
